---- MODULE Spec2Model ----
(***************************************************************************)
(* Model of geone/pgs.py, function pluriGaussianSim: validation of the     *)
(* arguments, indexing of the conditioning data, kriging matrices, and the *)
(* loop over realizations / tries with the sequential initialization, the  *)
(* Metropolis-Hastings loop, the full-grid generation and the emission.    *)
(*                                                                         *)
(* Abstractions.  Latent values are drawn from the finite set Vals; a draw *)
(* of np.random.normal / np.random.random is a nondeterministic choice.    *)
(* Coordinates are integers in half-cell units (spacing 1.0 = 2 units,     *)
(* origin 0.0), so that both cell interiors and cell boundaries exist.     *)
(* Covariance functions are integer tables over the L1 norm of the lag;    *)
(* np.linalg.solve raises exactly when the determinant of its matrix is 0. *)
(***************************************************************************)
EXTENDS Integers, Sequences, FiniteSets, TLC

\* ------------------------------------------------------------------ bounds
MaxPts == 2          \* raw conditioning points given in x
MaxReal == 2         \* nreal
MaxTry == 2          \* ntry_max
MaxIter == 2         \* mh_iter_max (and mh_iter_min)
GridNx == 2          \* cells along each axis of the grid

\* ------------------------------------------------------------- value sets
Vals == {0, 1}                       \* classes of latent values

\* flag_value(t1, t2) for the rule named r
FlagValue(r, t1, t2) ==
    IF r = "t1" THEN (IF t1 > 0 THEN 1 ELSE 2)
    ELSE (IF t1 > 0 /\ t2 > 0 THEN 1 ELSE 2)

Abs(n) == IF n < 0 THEN -n ELSE n
Min2(a, b) == IF a < b THEN a ELSE b

RECURSIVE Pow(_, _)
Pow(b, e) == IF e = 0 THEN 1 ELSE b * Pow(b, e - 1)

RECURSIVE SumTo(_, _)
\* sum of f[i] for i in 1..n
SumTo(f, n) == IF n = 0 THEN 0 ELSE f[n] + SumTo(f, n - 1)

Last(s) == s[Len(s)]

\* np.random.permutation(n): the permutations of 1..n
Perms(n) == {p \in [1..n -> 1..n] : \A a, b \in 1..n : a # b => p[a] # p[b]}

\* --------------------------------------------------------- validation
IsDet(algo) == algo = "deterministic"

\* lines 424-429: the covariance model is ignored for a deterministic algo
\* cm: 0 = None, 1/2/3 = CovModel1D/2D/3D, 9 = object of another type
EffCm(cm, algo) == IF IsDet(algo) THEN 0 ELSE cm

\* lines 431-468: space dimension d, from cov_model_T1, else from dimension
\* dim_len: 0 = int (no __len__), n > 0 = sequence of n ints
SpaceDim(a) ==
    LET c1 == EffCm(a.cm_T1, a.algo_T1)
    IN  IF c1 \in {1, 2, 3} THEN c1
        ELSE IF a.dim_len > 0 THEN a.dim_len ELSE 1

\* lines 476-479: True iff an array of `kind` has a size in (1, grid_size).
\* For d = 1, grid_size is `dimension` itself: a tuple or list of one int is
\* equal to no integer size.
SizeOk(a, kind) ==
    \/ kind \in {"absent", "none", "scalar"}
    \/ kind = "grid" /\ ~(SpaceDim(a) = 1 /\ a.dim_len > 0)

\* number of rows of x.reshape(-1, d)
NRows(a) == Len(a.x) \div SpaceDim(a)

\* lines 404-628: the first failing check, "ok" when every check passes
ValidationError(a) ==
    LET c1 == EffCm(a.cm_T1, a.algo_T1)
        c2 == EffCm(a.cm_T2, a.algo_T2)
        d0 == IF c1 \in {1, 2, 3} THEN c1 ELSE 0
        d  == SpaceDim(a)
    IN  IF ~a.flag_callable THEN "flag_value"
        ELSE IF a.algo_T1 \notin {"fft", "classic", "deterministic"} THEN "algo_T1"
        ELSE IF a.algo_T2 \notin {"fft", "classic", "deterministic"} THEN "algo_T2"
        ELSE IF c1 = 0 /\ ~IsDet(a.algo_T1) THEN "cov_model_T1 None"
        ELSE IF c1 = 9 THEN "cov_model_T1 invalid"
        ELSE IF c2 = 0 /\ ~IsDet(a.algo_T2) THEN "cov_model_T2 None"
        ELSE IF c2 # 0 /\ d0 # 0 /\ c2 # d0 THEN "cov models not compatible"
        ELSE IF a.dim_len > 0 /\ a.dim_len # d THEN "dimension"
        ELSE IF a.spacing_len > 0 /\ a.spacing_len # d THEN "spacing"
        ELSE IF a.origin_len > 0 /\ a.origin_len # d THEN "origin"
        ELSE IF ~SizeOk(a, a.mean_T1) THEN "mean T1"
        ELSE IF ~SizeOk(a, a.var_T1) THEN "var T1"
        ELSE IF ~SizeOk(a, a.mean_T2) THEN "mean T2"
        ELSE IF ~SizeOk(a, a.var_T2) THEN "var T2"
        ELSE IF ~a.x_given /\ a.v_given THEN "v without x"
        ELSE IF a.x_given /\ ~a.v_given THEN "x without v"
        ELSE IF a.x_given /\ Len(a.x) % d # 0 THEN "raise reshape"
        ELSE IF a.x_given /\ Len(a.v) # NRows(a) THEN "len(v)"
        ELSE "ok"


\* ------------------------------------------------ conditioning data index
\* line 623: x.reshape(-1, d), rows 1..NRows(a), each a d-tuple
Reshape(a) ==
    LET d == SpaceDim(a)
    IN  [i \in 1..NRows(a) |-> [c \in 1..d |-> a.x[(i - 1) * d + c]]]

\* AxisIndex without the step down at a boundary
AxisIndexTruncated(c) == IF c >= 0 THEN c \div 2 ELSE -((-c) \div 2)

\* lines 633-635 along one axis: (c - origin)/spacing truncated to an int,
\* minus 1 when the quotient is an integer and positive
AxisIndex(c) ==
    LET q == IF c >= 0 THEN c \div 2 ELSE -((-c) \div 2)
    IN  IF 2 * q = c /\ q > 0 THEN q - 1 ELSE q

\* lines 636-641: flattened grid index of the point with coordinates p
\* (dimension[0] and dimension[1] are GridNx)
CellIndex(d, p) ==
    IF d = 1 THEN AxisIndex(p[1])
    ELSE IF d = 2 THEN AxisIndex(p[1]) + GridNx * AxisIndex(p[2])
    ELSE AxisIndex(p[1]) + GridNx * (AxisIndex(p[2]) + GridNx * AxisIndex(p[3]))

\* line 642: np.unique(indc), in increasing order
RECURSIVE SortedSeq(_)
SortedSeq(S) ==
    IF S = {} THEN <<>>
    ELSE LET m == CHOOSE e \in S : \A f \in S : e <= f
         IN  <<m>> \o SortedSeq(S \ {m})

\* FirstAt that takes the last row of the cell
LastAt(d, xs, c) == CHOOSE i \in 1..Len(xs) :
    /\ CellIndex(d, xs[i]) = c
    /\ \A i2 \in (i + 1)..Len(xs) : CellIndex(d, xs[i2]) # c

\* first row (in input order) whose grid index is c
FirstAt(d, xs, c) == CHOOSE i \in 1..Len(xs) :
    /\ CellIndex(d, xs[i]) = c
    /\ \A i2 \in 1..(i - 1) : CellIndex(d, xs[i2]) # c

\* Inconsistent that finds nothing
InconsistentNever(d, xs, vs) == FALSE

\* line 644: some cell holds points with more than one value
Inconsistent(d, xs, vs) ==
    \E i, i2 \in 1..Len(xs) :
        CellIndex(d, xs[i]) = CellIndex(d, xs[i2]) /\ vs[i] # vs[i2]

\* lines 642-652: rows kept as conditioning points, as a sequence of indices
\* into the input: the input itself when every point has its own cell,
\* else the first point of each cell, cells in increasing order
KeptRows(d, xs) ==
    LET cells == {CellIndex(d, xs[i]) : i \in 1..Len(xs)}
        uniq  == SortedSeq(cells)
    IN  IF Len(uniq) = Len(xs) THEN [i \in 1..Len(xs) |-> i]
        ELSE [q \in 1..Len(uniq) |-> FirstAt(d, xs, uniq[q])]

\* lines 651-652: the conditioning points and values kept, <<x, v>>
KeptData(d, xs, vs) ==
    LET keep == KeptRows(d, xs)
    IN  <<[q \in 1..Len(keep) |-> xs[keep[q]]], [q \in 1..Len(keep) |-> vs[keep[q]]]>>

\* lines 528-547: mean array of a field, by kind; entry at grid index c
MeanAt(kind, c) ==
    IF kind \in {"absent", "none"} THEN 0
    ELSE IF kind = "scalar" THEN 1
    ELSE c % 2

\* lines 657-670: index into the mean array for a point in grid cell c
MeanGridInd(kind, c) == IF kind = "grid" THEN c ELSE 0

\* ------------------------------------------------------- kriging matrices
\* covariance tables (covariance by L1 norm of the lag, in half cells)
CovTab(name) ==
    IF name = "pd" THEN <<2, 1, 0>>
    ELSE IF name = "full" THEN <<1, 1, 1>>
    ELSE <<0, 0, 0>>

\* cov_func(h) for the lag vector h
CovFunc(name, h) ==
    LET t  == CovTab(name)
        l1 == SumTo([c \in 1..Len(h) |-> Abs(h[c])], Len(h))
    IN  t[Min2(l1, Len(t) - 1) + 1]

\* lines 549-566: variance array of a field, by kind; entry at grid index c
VarAt(kind, c, cov0) ==
    IF kind = "scalar" THEN cov0
    ELSE IF c = 0 THEN 0 ELSE cov0

ISqrt(n) == CHOOSE r \in 0..n : r * r = n

\* KrigingMatrix without the assignment of the last diagonal entry, which
\* keeps the 1 of np.ones
KrigingMatrixLastOne(name, xs) ==
    LET n    == Len(xs)
        d    == Len(xs[1])
        cov0 == CovFunc(name, [c \in 1..d |-> 0])
    IN  [i \in 1..n |-> [j \in 1..n |->
            IF i = j THEN (IF i = n THEN 1 ELSE cov0)
            ELSE LET lo == Min2(i, j)
                     hi == IF i < j THEN j ELSE i
                 IN  CovFunc(name, [c \in 1..d |-> xs[hi][c] - xs[lo][c]])]]

\* lines 733-742: kriging matrix over the points xs (npt >= 1)
KrigingMatrix(name, xs) ==
    LET n    == Len(xs)
        d    == Len(xs[1])
        cov0 == CovFunc(name, [c \in 1..d |-> 0])
    IN  [i \in 1..n |-> [j \in 1..n |->
            IF i = j THEN cov0
            ELSE LET lo == Min2(i, j)
                     hi == IF i < j THEN j ELSE i
                 IN  CovFunc(name, [c \in 1..d |-> xs[hi][c] - xs[lo][c]])]]

\* lines 744-746: rescaling by the variance at the points
Rescale(M, name, vkind, cells) ==
    LET n    == Len(M)
        cov0 == M[1][1]
        vu   == [i \in 1..n |->
                    ISqrt(VarAt(vkind, IF vkind = "grid" THEN cells[i] ELSE 0, cov0)
                          \div cov0)]
    IN  IF vkind \in {"absent", "none"} THEN M
        ELSE [i \in 1..n |-> [j \in 1..n |-> vu[i] * M[i][j] * vu[j]]]

RECURSIVE Det(_, _, _)
\* determinant of the sub-matrix of M with rows rs and columns cs
Det(M, rs, cs) ==
    IF Len(rs) = 0 THEN 1
    ELSE LET Drop(s, q) == [t \in 1..(Len(s) - 1) |-> IF t < q THEN s[t] ELSE s[t + 1]]
             Term(q) == (IF q % 2 = 1 THEN 1 ELSE -1) * M[rs[1]][cs[q]]
                        * Det(M, Tail(rs), Drop(cs, q))
         IN  SumTo([q \in 1..Len(cs) |-> Term(q)], Len(cs))

\* np.linalg.solve(M[idx, :][:, idx], ...) raises LinAlgError
Singular(M, idx) == Len(idx) > 0 /\ Det(M, idx, idx) = 0


\* kriging variance cov0 - w.rhs of point k given the points idx, times
\* det(M[idx, idx]): determinant of M[idx, idx] bordered by the second member
\* M[idx, k] and by cov0
KVarNum(M, idx, k, cov0) ==
    LET B == [i \in 1..Len(M) |-> [q \in 1..Len(M) |->
                 IF i = k /\ q = k THEN cov0 ELSE M[i][q]]]
    IN  Det(B, Append(idx, k), Append(idx, k))

\* values np.random.normal(loc=mu, scale=std) can return: any value when the
\* kriging variance is positive, mu itself when it is (clamped to) zero;
\* mu is the mean of the point when there is no neighbour
DrawVals(M, idx, k, cov0, mean_k) ==
    IF KVarNum(M, idx, k, cov0) * Det(M, idx, idx) > 0 THEN Vals
    ELSE IF Len(idx) = 0 THEN {mean_k}
    ELSE Vals

\* ------------------------------------------------------------------ state
VARIABLES
    args,        \* the arguments of the call
    pc,          \* position in pluriGaussianSim
    out,         \* what the call returned
    x, v,        \* conditioning points and values (after lines 623-652)
    mat_T1, mat_T2,
    Z, T1, T2, n_cond_ok,
    ireal, ntry, sim_ok, nhd_ok,
    v_T, ind, pos, nit, hd_ok, stop_mh, p_accept, v_T_k_new,
    sim_T1, sim_T2,
    eff,         \* what has been executed so far: draws, solves, generations
    ntries,      \* tries started for the target ireal
    nemit,       \* results emitted for the target ireal
    nomit,       \* targets left without a result so far
    singular,    \* a kriging solve of the current try has raised
    ncand,       \* candidates drawn for each point in the current sweep
    params_T1, params_T2   \* the dictionaries passed as params_T1, params_T2

vars == <<args, pc, out, x, v, mat_T1, mat_T2, Z, T1, T2, n_cond_ok,
          ireal, ntry, sim_ok, nhd_ok, v_T, ind, pos, nit, hd_ok, stop_mh,
          p_accept, v_T_k_new, sim_T1, sim_T2, eff, ntries, nemit, nomit, singular,
          ncand, params_T1, params_T2>>

given == <<args, params_T1, params_T2>>

prep  == <<x, v, mat_T1, mat_T2>>
outs  == <<Z, T1, T2, n_cond_ok>>
loops == <<ireal, ntry, ntries, nemit, nomit>>
mh    == <<nit, hd_ok, stop_mh, p_accept, v_T_k_new, ncand>>
sims  == <<sim_T1, sim_T2>>

d == SpaceDim(args)
npt == Len(x)
cm1 == EffCm(args.cm_T1, args.algo_T1)
cm2 == EffCm(args.cm_T2, args.algo_T2)
GridCells == 0..(Pow(GridNx, d) - 1)
NoField == [none |-> TRUE, f |-> <<>>]
Field(f) == [none |-> FALSE, f |-> f]

\* lines 404-628
Validate ==
    /\ pc = "validate"
    /\ LET e == ValidationError(args)
       IN  IF e = "raise reshape"
             THEN pc' = "raised" /\ out' = out
           ELSE IF e # "ok"
             THEN pc' = "done" /\ out' = (IF args.full_output THEN "None4" ELSE "None")
           ELSE pc' = (IF args.x_given THEN "index" ELSE "params") /\ out' = out
    /\ UNCHANGED <<given, prep, outs, loops, sim_ok, nhd_ok, v_T, ind, pos, mh, sims, eff, singular>>

\* lines 623-652 (the indices of lines 657-721 are MeanGridInd and Rescale)
IndexData ==
    /\ pc = "index"
    /\ LET xs == Reshape(args)
       IN  IF d > 1 /\ args.dim_len = 0
             THEN \* dimension[0] of an int
                  pc' = "raised" /\ UNCHANGED <<out, x, v>>
           ELSE IF Inconsistent(d, xs, args.v)
             THEN /\ pc' = "done"
                  /\ out' = (IF args.full_output THEN "None4" ELSE "None")
                  /\ UNCHANGED <<x, v>>
           ELSE /\ x' = KeptData(d, xs, args.v)[1]
                /\ v' = KeptData(d, xs, args.v)[2]
                /\ pc' = "matrices"
                /\ out' = out
    /\ UNCHANGED <<given, mat_T1, mat_T2, outs, loops, sim_ok, nhd_ok, v_T, ind, pos,
                   mh, sims, eff, singular>>

Cells == [k \in 1..npt |-> CellIndex(d, x[k])]

\* lines 725-730: cov_model_T2.func() is evaluated at points of dimension d;
\* the model is of another dimension (no check when cov_model_T1 is None)
CovDimDiffers == cm2 # 0 /\ cm2 # d

\* lines 723-763
BuildKriging ==
    /\ pc = "matrices"
    /\ \/ /\ npt = 0 /\ (cm1 # 0 \/ cm2 # 0)
          \* mat[-1, -1] of an array of shape (0, 0)
          /\ pc' = "raised" /\ UNCHANGED <<mat_T1, mat_T2>>
       \/ /\ CovDimDiffers
          \* the covariance function may reject its argument
          /\ pc' = "raised" /\ UNCHANGED <<mat_T1, mat_T2>>
       \/ /\ ~(npt = 0 /\ (cm1 # 0 \/ cm2 # 0))
          /\ mat_T1' = IF cm1 # 0
                THEN Rescale(KrigingMatrix(args.cov_T1, x), args.cov_T1, args.var_T1, Cells)
                ELSE mat_T1
          /\ mat_T2' = IF cm2 # 0
                THEN Rescale(KrigingMatrix(args.cov_T2, x), args.cov_T2, args.var_T2, Cells)
                ELSE mat_T2
          /\ pc' = "params"
    /\ UNCHANGED <<given, out, x, v, outs, loops, sim_ok, nhd_ok, v_T, ind, pos, mh,
                   sims, eff, singular>>

\* a dictionary of parameters: what it holds under the keys 'mean', 'var' and
\* 'verbose' ("absent": the key is not in the dictionary)
Params(mean, var) == [mean |-> mean, var |-> var, verbose |-> "absent"]

\* lines 528-547: mean_T as an array of size 1 or of the size of the grid
MeanArray(kind) ==
    IF kind \in {"absent", "none"} THEN "array [0.]"
    ELSE IF kind = "scalar" THEN "array of size 1"
    ELSE "array of grid size"

\* lines 549-566: var_T, None or an array
VarArray(kind) ==
    IF kind \in {"absent", "none"} THEN "None"
    ELSE IF kind = "scalar" THEN "array of size 1"
    ELSE "array of grid size"

\* lines 766-773 (774-781): params_T['mean'] and, with a covariance model,
\* params_T['var'] are assigned in the dictionary of the caller
WithMeanVar(p, cm, mean, var) ==
    IF cm # 0
      THEN [p EXCEPT !.mean = MeanArray(mean), !.var = VarArray(var)]
      ELSE [p EXCEPT !.mean = "array of grid shape"]

\* lines 784-787: 'verbose' is set unless the key is there
WithVerbose(p) == [p EXCEPT !.verbose = IF @ = "absent" THEN "0" ELSE @]

\* lines 765-794
SetParams ==
    /\ pc = "params"
    /\ IF cm1 = 0 /\ args.dim_len = 0
         THEN \* dimension[::-1] of an int, for T1
              pc' = "raised" /\ UNCHANGED <<outs, params_T1, params_T2>>
       ELSE IF cm2 = 0 /\ args.dim_len = 0
         THEN \* dimension[::-1] of an int, for T2, after params_T1 was written
              /\ pc' = "raised"
              /\ params_T1' = WithMeanVar(params_T1, cm1, args.mean_T1, args.var_T1)
              /\ UNCHANGED <<outs, params_T2>>
       ELSE /\ params_T1' =
                  WithVerbose(WithMeanVar(params_T1, cm1, args.mean_T1, args.var_T1))
            /\ params_T2' =
                  WithVerbose(WithMeanVar(params_T2, cm2, args.mean_T2, args.var_T2))
            /\ Z' = <<>> /\ T1' = <<>> /\ T2' = <<>> /\ n_cond_ok' = <<>>
            /\ pc' = "for_ireal"
    /\ UNCHANGED <<args, out, prep, loops, sim_ok, nhd_ok, v_T, ind, pos, mh, sims, eff, singular>>

\* line 796: for ireal in range(nreal)
ForReal ==
    /\ pc = "for_ireal"
    /\ nomit' = IF ireal >= 0 /\ nemit = 0 THEN nomit + 1 ELSE nomit
    /\ IF ireal + 1 < args.nreal
         THEN /\ ireal' = ireal + 1
              /\ ntry' = -1 /\ ntries' = 0 /\ nemit' = 0
              /\ pc' = "for_ntry"
         ELSE /\ pc' = "return"
              /\ UNCHANGED <<ireal, ntry, ntries, nemit>>
    /\ UNCHANGED <<given, out, prep, outs, sim_ok, nhd_ok, v_T, ind, pos, mh, sims, eff,
                   singular>>

\* MoreTries with one try too many
MoreTriesOffByOne(t) == t < args.ntry_max

\* line 800: range(ntry_max) yields another try after try t
MoreTries(t) == t + 1 < args.ntry_max

\* FreshLatent that keeps the latent values the previous try has left
KeptLatent == IF Len(v_T) = npt THEN v_T ELSE [k \in 1..npt |-> <<0, 0>>]

\* line 845: v_T = np.zeros((npt, 2))
FreshLatent == [k \in 1..npt |-> <<0, 0>>]

\* lines 800-805 and, in the conditional case, 845-847
StartTry ==
    /\ pc = "for_ntry"
    /\ IF MoreTries(ntry)
         THEN /\ ntry' = ntry + 1
              /\ ntries' = ntries + 1
              /\ sim_ok' = TRUE
              /\ nhd_ok' = <<>>
              /\ singular' = FALSE
              /\ IF ~args.x_given
                   THEN pc' = "uncond" /\ UNCHANGED <<v_T, ind, pos, eff>>
                   ELSE /\ v_T' = FreshLatent
                        /\ ind' \in Perms(npt)
                        /\ pos' = 1
                        /\ eff' = [eff EXCEPT !.draw = TRUE]
                        /\ pc' = "init_T1"
         ELSE /\ pc' = "for_ireal"
              /\ UNCHANGED <<ntry, ntries, sim_ok, nhd_ok, v_T, ind, pos, eff, singular>>
    /\ UNCHANGED <<given, out, prep, outs, ireal, nemit, nomit, mh, sims>>

\* ---------------------------------------------- sequential initialization
Mean1(k) == MeanAt(args.mean_T1, MeanGridInd(args.mean_T1, Cells[k]))
Mean2(k) == MeanAt(args.mean_T2, MeanGridInd(args.mean_T2, Cells[k]))
Cov0_T1 == CovFunc(args.cov_T1, [c \in 1..d |-> 0])
Cov0_T2 == CovFunc(args.cov_T2, [c \in 1..d |-> 0])

\* Before that takes the visited point with the points visited before it
BeforeAndAt(p) == SubSeq(ind, 1, p)

\* lines 851, 883: ind[:j], the points visited before position p (j = p - 1)
Before(p) == SubSeq(ind, 1, p - 1)

\* Solved that works in place on the matrix: the rows and columns idx are
\* overwritten
SolvedInPlace(M, idx) ==
    [i \in DOMAIN M |-> [j \in DOMAIN M[i] |->
        IF (\E a \in DOMAIN idx : idx[a] = i) /\ (\E b \in DOMAIN idx : idx[b] = j)
          THEN 0 ELSE M[i][j]]]

\* lines 853-856 (883-886, 935-938, 957-960): the kriging matrix after
\* np.linalg.solve(mat[idx, :][:, idx], mat[idx, k]); indexing by an index
\* array copies, and solve leaves its operands as they are
Solved(M, idx) == M

\* InitSingular without the except clause: the exception leaves the call
InitSingularUncaught ==
    /\ pc' = "raised"
    /\ singular' = TRUE
    /\ UNCHANGED <<sim_ok, v_T, pos>>

\* lines 857-859 and 870-874 (887-889 and 900-904): the solve has raised
InitSingular ==
    /\ sim_ok' = FALSE
    /\ singular' = TRUE
    /\ pc' = "for_ntry"
    /\ UNCHANGED <<v_T, pos>>

\* lines 848-877: one pass of the loop body for the point ind[pos], or the
\* end of the loop
InitT1 ==
    /\ pc = "init_T1"
    /\ IF pos <= npt
         THEN /\ LET k   == ind[pos]
                     idx == Before(pos)
                 IN  IF cm1 # 0
                       THEN /\ eff' = [eff EXCEPT !.solve = TRUE, !.draw = TRUE]
                            /\ IF Singular(mat_T1, idx)
                                 THEN InitSingular
                                 ELSE /\ \E val \in DrawVals(mat_T1, idx, k, Cov0_T1, Mean1(k)) :
                                             v_T' = [v_T EXCEPT ![k][1] = val]
                                      /\ pos' = pos + 1
                                      /\ UNCHANGED <<sim_ok, pc, singular>>
                       ELSE /\ v_T' = [v_T EXCEPT ![k][1] = Mean1(k)]
                            /\ pos' = pos + 1
                            /\ UNCHANGED <<sim_ok, pc, eff, singular>>
              /\ ind' = ind
         ELSE /\ ind' \in Perms(npt)
              /\ pos' = 1
              /\ pc' = "init_T2"
              /\ UNCHANGED <<sim_ok, v_T, eff, singular>>
    /\ mat_T1' = IF pos <= npt /\ cm1 # 0 THEN Solved(mat_T1, Before(pos)) ELSE mat_T1
    /\ UNCHANGED <<given, out, x, v, mat_T2, outs, loops, nhd_ok, mh, sims>>

\* lines 878-908
InitT2 ==
    /\ pc = "init_T2"
    /\ IF pos <= npt
         THEN /\ LET k   == ind[pos]
                     idx == Before(pos)
                 IN  IF cm2 # 0
                       THEN /\ eff' = [eff EXCEPT !.solve = TRUE, !.draw = TRUE]
                            /\ IF Singular(mat_T2, idx)
                                 THEN InitSingular
                                 ELSE /\ \E val \in DrawVals(mat_T2, idx, k, Cov0_T2, Mean2(k)) :
                                             v_T' = [v_T EXCEPT ![k][2] = val]
                                      /\ pos' = pos + 1
                                      /\ UNCHANGED <<sim_ok, pc, singular>>
                       ELSE /\ v_T' = [v_T EXCEPT ![k][2] = Mean2(k)]
                            /\ pos' = pos + 1
                            /\ UNCHANGED <<sim_ok, pc, eff, singular>>
              /\ UNCHANGED <<nit, stop_mh, v_T_k_new>>
         ELSE /\ v_T_k_new' = <<0, 0>>
              /\ stop_mh' = FALSE
              /\ nit' = 0
              /\ pos' = 1
              /\ pc' = "mh_iter"
              /\ UNCHANGED <<sim_ok, v_T, eff, singular>>
    /\ mat_T2' = IF pos <= npt /\ cm2 # 0 THEN Solved(mat_T2, Before(pos)) ELSE mat_T2
    /\ UNCHANGED <<given, out, x, v, mat_T1, outs, loops, nhd_ok, ind, hd_ok, p_accept,
                   sims, ncand>>

\* ------------------------------------------------------ Metropolis-Hastings
\* HdOk that takes every point as honoured
HdOkAll(vt) == [k \in 1..npt |-> TRUE]

\* line 911: hd_ok = flag_value(v_T[:, 0], v_T[:, 1]) == v
HdOk(vt) == [k \in 1..npt |-> FlagValue(args.rule, vt[k][1], vt[k][2]) = v[k]]

\* NumOk that takes every point as honoured
NumOkAll(h) == Len(h)

\* line 912: np.sum(hd_ok)
NumOk(h) == Cardinality({k \in 1..Len(h) : h[k]})

\* StopMH without the test of nit against mh_iter_min
StopMHAnyIter(n, cnt) == cnt = npt

\* lines 913-914: the loop stops at iteration n with cnt honoured points
StopMH(n, cnt) == n >= args.mh_iter_min /\ cnt = npt

\* PAccept with 1/mh_iter_min in the place of nit/mh_iter_min
PAcceptFirstStep(n) ==
    <<args.accept_init * Pow(args.mh_iter_min - 1, args.accept_pow),
      4 * Pow(args.mh_iter_min, args.accept_pow)>>

\* PAccept that does not depend on the iteration
PAcceptFlat(n) == <<args.accept_init, 4>>

\* PAccept without the factor accept_init
PAcceptNoInit(n) ==
    <<4 * Pow(args.mh_iter_min - n, args.accept_pow),
      4 * Pow(args.mh_iter_min, args.accept_pow)>>

\* line 919: accept_init * (1 - nit/mh_iter_min)**accept_pow as the fraction
\* <<numerator, denominator>>; accept_init is given in quarters
PAccept(n) ==
    <<args.accept_init * Pow(args.mh_iter_min - n, args.accept_pow),
      4 * Pow(args.mh_iter_min, args.accept_pow)>>

\* InLoop that leaves the loop by stop_mh only
InLoopUntilStopped(n) == TRUE

\* line 909: while nit < mh_iter_max
InLoop(n) == n < args.mh_iter_max

\* lines 909-922: head of iteration nit
MHIter ==
    /\ pc = "mh_iter"
    /\ IF InLoop(nit)
         THEN LET h == HdOk(v_T)
              IN  /\ hd_ok' = h
                  /\ nhd_ok' = Append(nhd_ok, NumOk(h))
                  /\ IF StopMH(nit, NumOk(h))
                       THEN /\ stop_mh' = TRUE
                            /\ pc' = "post_mh"
                            /\ UNCHANGED <<p_accept, ind, pos, eff, ncand>>
                       ELSE /\ p_accept' = IF nit < args.mh_iter_min
                                           THEN PAccept(nit) ELSE p_accept
                            /\ ind' \in Perms(npt)
                            /\ pos' = 1
                            /\ ncand' = [k \in 1..npt |-> 0]
                            /\ eff' = [eff EXCEPT !.draw = TRUE]
                            /\ pc' = "mh_sweep"
                            /\ stop_mh' = stop_mh
         ELSE /\ pc' = "post_mh"
              /\ UNCHANGED <<hd_ok, nhd_ok, stop_mh, p_accept, ind, pos, eff, ncand>>
    /\ UNCHANGED <<given, out, prep, outs, loops, sim_ok, v_T, nit, v_T_k_new, sims,
                   singular>>

\* Skip that leaves out the honoured points in every iteration
SkipHonoured(n, k) == hd_ok[k]

\* Skip that never skips
SkipNever(n, k) == FALSE

\* line 924: the point k is skipped in iteration n
Skip(n, k) == n >= args.mh_iter_min /\ hd_ok[k]

\* line 929: indexes without k
IndMat(k) == [q \in 1..(npt - 1) |-> IF q < k THEN q ELSE q + 1]

\* Accepted without the test of nit against mh_iter_min
AcceptedAnyIter(cand, k, n, u) ==
    \/ FlagValue(args.rule, cand[1], cand[2]) = v[k]
    \/ u * p_accept[2] < 4 * p_accept[1]

\* lines 977-982: the candidate cand for point k is accepted in iteration n,
\* u being the value np.random.random() returns (in quarters)
Accepted(cand, k, n, u) ==
    \/ FlagValue(args.rule, cand[1], cand[2]) = v[k]
    \/ n < args.mh_iter_min /\ u * p_accept[2] < 4 * p_accept[1]

\* line 980 reads p_accept: the candidate is wrong and n < mh_iter_min
ReadsPAccept(cand, k, n) ==
    FlagValue(args.rule, cand[1], cand[2]) # v[k] /\ n < args.mh_iter_min

\* p_accept before line 919 has bound it
Unbound == <<0, 0>>

\* Update that writes at the position in the permutation, not at the point
UpdateAtPos(vt, k, cand) == [vt EXCEPT ![pos] = cand]

\* Update that takes the T1 value of the candidate only
UpdateT1Only(vt, k, cand) == [vt EXCEPT ![k][1] = cand[1]]

\* lines 979, 982: v_T[k] = v_T_k_new
Update(vt, k, cand) == [vt EXCEPT ![k] = cand]

\* Cand1 that draws a value for a deterministic field too
Cand1Resampled(k) ==
    IF cm1 # 0 THEN DrawVals(mat_T1, IndMat(k), k, Cov0_T1, Mean1(k)) ELSE Vals

\* candidates for the latent value of point k (lines 932-952, 955-974)
Cand1(k) == IF cm1 # 0 THEN DrawVals(mat_T1, IndMat(k), k, Cov0_T1, Mean1(k))
            ELSE {Mean1(k)}
Cand2(k) == IF cm2 # 0 THEN DrawVals(mat_T2, IndMat(k), k, Cov0_T2, Mean2(k))
            ELSE {Mean2(k)}

\* MHSingular that keeps sim_ok and goes on with the next point
MHSingularIgnored ==
    /\ sim_ok' = sim_ok
    /\ singular' = TRUE
    /\ pc' = pc
    /\ pos' = pos + 1

\* MHSingular that goes on with the next point of the sweep
MHSingularNextPoint ==
    /\ sim_ok' = FALSE
    /\ singular' = TRUE
    /\ pc' = pc
    /\ pos' = pos + 1

\* lines 939-943 (961-965) and 984-985: the solve has raised; sim_ok is
\* cleared and both loops are left
MHSingular ==
    /\ sim_ok' = FALSE
    /\ singular' = TRUE
    /\ pc' = "post_mh"
    /\ pos' = pos

\* lines 923-985: one pass of the loop body for the point ind[pos], or the
\* end of the sweep
MHVisit ==
    /\ pc = "mh_sweep"
    /\ IF pos <= npt
         THEN /\ LET k == ind[pos]
                 IN  IF Skip(nit, k)
                       THEN /\ pos' = pos + 1
                            /\ UNCHANGED <<v_T, v_T_k_new, sim_ok, pc, eff, singular, ncand>>
                     ELSE IF cm1 # 0 /\ Singular(mat_T1, IndMat(k))
                       THEN /\ MHSingular
                            /\ eff' = [eff EXCEPT !.solve = TRUE]
                            /\ UNCHANGED <<v_T, v_T_k_new, ncand>>
                     ELSE \E c1 \in Cand1(k) :
                          IF cm2 # 0 /\ Singular(mat_T2, IndMat(k))
                            THEN /\ MHSingular
                                 /\ v_T_k_new' = <<c1, v_T_k_new[2]>>
                                 /\ eff' = [eff EXCEPT !.solve = TRUE,
                                                       !.draw = @ \/ cm1 # 0]
                                 /\ v_T' = v_T
                                 /\ ncand' = ncand
                            ELSE \E c2 \in Cand2(k), u \in 0..3 :
                                 /\ v_T_k_new' = <<c1, c2>>
                                 /\ ncand' = [ncand EXCEPT ![k] = @ + 1]
                                 /\ eff' = [eff EXCEPT
                                              !.solve = @ \/ cm1 # 0 \/ cm2 # 0,
                                              !.draw = @ \/ cm1 # 0 \/ cm2 # 0
                                                         \/ ReadsPAccept(<<c1, c2>>, k, nit)]
                                 /\ UNCHANGED <<sim_ok, singular>>
                                 /\ IF ReadsPAccept(<<c1, c2>>, k, nit) /\ p_accept = Unbound
                                      THEN pc' = "raised" /\ UNCHANGED <<v_T, pos>>
                                      ELSE /\ v_T' = IF Accepted(<<c1, c2>>, k, nit, u)
                                                     THEN Update(v_T, k, <<c1, c2>>)
                                                     ELSE v_T
                                           /\ pos' = pos + 1
                                           /\ pc' = pc
              /\ nit' = nit
         ELSE /\ nit' = nit + 1
              /\ pos' = 1
              /\ pc' = "mh_iter"
              /\ UNCHANGED <<v_T, v_T_k_new, sim_ok, eff, singular, ncand>>
    /\ LET solves == pos <= npt /\ ~Skip(nit, ind[pos])
       IN  /\ mat_T1' = IF solves /\ cm1 # 0
                           THEN Solved(mat_T1, IndMat(ind[pos])) ELSE mat_T1
           /\ mat_T2' = IF solves /\ cm2 # 0 /\ ~(cm1 # 0 /\ Singular(mat_T1, IndMat(ind[pos])))
                           THEN Solved(mat_T2, IndMat(ind[pos])) ELSE mat_T2
    /\ UNCHANGED <<given, out, x, v, outs, loops, nhd_ok, ind, hd_ok, stop_mh,
                   p_accept, sims>>

\* History that records npt after the loop without counting
HistoryNoCount(hist, vt, stopped) ==
    IF stopped THEN hist ELSE Append(hist, Len(vt))

\* History without the count after the loop
HistoryAsLeft(hist, vt, stopped) == hist

\* lines 990-992: the history after the loop; the count is taken again
\* unless the loop has stopped by stop_mh
History(hist, vt, stopped) ==
    IF stopped THEN hist ELSE Append(hist, NumOk(HdOk(vt)))

\* Abandon that lets retrieve_real_anyway keep any try
AbandonUnlessRetrieve(cnt, t) == cnt # npt /\ ~args.retrieve_real_anyway

\* Abandon that takes a loop left without stop_mh as a failure
AbandonUnlessStopped(cnt, t) ==
    \/ ~stop_mh
    \/ cnt # npt /\ (t < args.ntry_max - 1 \/ ~args.retrieve_real_anyway)

\* lines 993-998: the try with cnt honoured points is abandoned
Abandon(cnt, t) ==
    cnt # npt /\ (t < args.ntry_max - 1 \/ ~args.retrieve_real_anyway)

\* lines 987-998
PostMH ==
    /\ pc = "post_mh"
    /\ IF ~sim_ok
         THEN pc' = "for_ntry" /\ UNCHANGED <<hd_ok, nhd_ok>>
         ELSE LET nh == History(nhd_ok, v_T, stop_mh)
              IN  /\ hd_ok' = IF stop_mh THEN hd_ok ELSE HdOk(v_T)
                  /\ nhd_ok' = nh
                  /\ pc' = IF nh = <<>> THEN "raised"   \* nhd_ok[-1] of an empty list
                           ELSE IF Abandon(Last(nh), ntry) THEN "for_ntry"
                           ELSE "generate"
    /\ UNCHANGED <<given, out, prep, outs, loops, sim_ok, v_T, ind, pos, nit, stop_mh,
                   p_accept, v_T_k_new, sims, eff, singular, ncand>>

\* ---------------------------------------------------- full-grid generation
\* multiGaussianRun(..., x=x, v=values, nreal=1): None, or a field over the
\* grid that takes the given value in the cell of every conditioning point
CondFields(col) ==
    {NoField} \cup
    {Field([c \in GridCells |->
              IF \E k \in 1..npt : Cells[k] = c
                THEN v_T[CHOOSE k \in 1..npt : Cells[k] = c][col]
                ELSE fill]) : fill \in Vals}

\* multiGaussianRun(..., nreal=1) without conditioning: None or a field
UncondFields ==
    {NoField} \cup
    {Field([c \in GridCells |-> IF c = 0 THEN a ELSE b]) : a, b \in Vals}

\* params['mean'].reshape(1, *dimension[::-1]) (lines 770-773, 1006)
MeanField(kind) == Field([c \in GridCells |-> MeanAt(kind, MeanGridInd(kind, c))])

\* GenOk that takes None for a field
GenOkAlways(f) == TRUE

\* lines 819, 836, 1011, 1028: `if sim_T is None` does not hold
GenOk(f) == ~f.none

\* lines 1000-1032 (conditional) and 805-840 (unconditional)
GenerateWith(F1, F2) ==
    /\ \E f1 \in (IF cm1 # 0 THEN F1 ELSE {MeanField(args.mean_T1)}) :
        /\ sim_T1' = f1
        /\ IF ~GenOk(f1)
             THEN /\ sim_ok' = FALSE
                  /\ sim_T2' = sim_T2
                  /\ pc' = "for_ntry"
                  /\ eff' = [eff EXCEPT !.gen = TRUE]
             ELSE \E f2 \in (IF cm2 # 0 THEN F2 ELSE {MeanField(args.mean_T2)}) :
                  /\ sim_T2' = f2
                  /\ sim_ok' = IF GenOk(f2) THEN sim_ok ELSE FALSE
                  /\ pc' = IF GenOk(f2) THEN "emit" ELSE "for_ntry"
                  /\ eff' = [eff EXCEPT !.gen = @ \/ cm1 # 0 \/ cm2 # 0]
    /\ UNCHANGED <<given, out, prep, outs, loops, nhd_ok, v_T, ind, pos, mh, singular>>

Generate == pc = "generate" /\ GenerateWith(CondFields(1), CondFields(2))

UncondGenerate == pc = "uncond" /\ GenerateWith(UncondFields, UncondFields)

\* FlagField that returns the first latent field
FlagFieldFirst(f1, f2) == f1

\* line 1043: flag_value(sim_T1[0], sim_T2[0])
FlagField(f1, f2) == [c \in DOMAIN f1 |-> FlagValue(args.rule, f1[c], f2[c])]

\* Drop that does not look at retrieve_real_anyway
DropPartial == args.x_given /\ Last(nhd_ok) # npt

\* lines 1036-1039: a result that does not honour all data is dropped
Drop == args.x_given /\ Last(nhd_ok) # npt /\ ~args.retrieve_real_anyway

\* FullAppend that keeps the entry of the last realization only
FullAppendLatest(lst, e) == <<e>>

\* lines 1046-1048: T1.append(...), T2.append(...), n_cond_ok.append(...)
FullAppend(lst, e) == Append(lst, e)

\* lines 1034-1049
Emit ==
    /\ pc = "emit"
    /\ IF ~sim_ok
         THEN pc' = "for_ntry" /\ UNCHANGED <<outs, nemit>>
       ELSE IF args.x_given /\ nhd_ok = <<>>
         THEN \* nhd_ok[-1] of an empty list
              pc' = "raised" /\ UNCHANGED <<outs, nemit>>
       ELSE IF Drop
         THEN pc' = "for_ireal" /\ UNCHANGED <<outs, nemit>>
       ELSE /\ Z' = Append(Z, FlagField(sim_T1.f, sim_T2.f))
            /\ IF args.full_output
                 THEN /\ T1' = FullAppend(T1, sim_T1.f)
                      /\ T2' = FullAppend(T2, sim_T2.f)
                      /\ n_cond_ok' = FullAppend(n_cond_ok, nhd_ok)
                 ELSE UNCHANGED <<T1, T2, n_cond_ok>>
            /\ nemit' = nemit + 1
            /\ pc' = "for_ireal"
    /\ UNCHANGED <<given, out, prep, ireal, ntry, ntries, nomit, sim_ok, nhd_ok, v_T,
                   ind, pos, mh, sims, eff, singular>>

\* lines 1051-1061
Return ==
    /\ pc = "return"
    /\ out' = (IF args.full_output THEN "Z, T1, T2, n_cond_ok" ELSE "Z")
    /\ pc' = "done"
    /\ UNCHANGED <<given, prep, outs, loops, sim_ok, nhd_ok, v_T, ind, pos, mh, sims, eff,
                   singular>>

\* ------------------------------------------- pluriGaussianSim_unconditional
\* lines 106-200: the first check of pluriGaussianSim_unconditional that
\* fails, "ok" if none (mean, var, x and v are not looked at)
UncondValidationError(a) ==
    LET c1 == EffCm(a.cm_T1, a.algo_T1)
        c2 == EffCm(a.cm_T2, a.algo_T2)
        d0 == IF c1 \in {1, 2, 3} THEN c1 ELSE 0
    IN  IF ~a.flag_callable THEN "flag_value"
        ELSE IF a.algo_T1 \notin {"fft", "classic", "deterministic"} THEN "algo_T1"
        ELSE IF a.algo_T2 \notin {"fft", "classic", "deterministic"} THEN "algo_T2"
        ELSE IF c1 = 0 /\ ~IsDet(a.algo_T1) THEN "cov_model_T1 None"
        ELSE IF c1 = 9 THEN "cov_model_T1 invalid"
        ELSE IF c2 = 0 /\ ~IsDet(a.algo_T2) THEN "cov_model_T2 None"
        ELSE IF c2 # 0 /\ d0 # 0 /\ c2 # d0 THEN "cov models not compatible"
        ELSE IF a.dim_len > 0 /\ a.dim_len # SpaceDim(a) THEN "dimension"
        ELSE IF a.spacing_len > 0 /\ a.spacing_len # SpaceDim(a) THEN "spacing"
        ELSE IF a.origin_len > 0 /\ a.origin_len # SpaceDim(a) THEN "origin"
        ELSE "ok"

\* lines 101-104: the None result of pluriGaussianSim_unconditional
UncondNone == IF args.full_output THEN "None3" ELSE "None"

\* multiGaussianRun(..., nreal=nreal) without conditioning: None, or nreal
\* fields over the grid
UncondRuns ==
    {<<>>} \cup {r \in [1..args.nreal -> {ff.f : ff \in UncondFields \ {NoField}}] : TRUE}

\* lines 101-214
UncondValidate ==
    /\ pc = "u_validate"
    /\ IF UncondValidationError(args) # "ok"
         THEN pc' = "done" /\ out' = UncondNone /\ UNCHANGED <<params_T1, params_T2>>
         ELSE /\ pc' = "u_T1" /\ out' = out
              /\ params_T1' = WithVerbose(params_T1)
              /\ params_T2' = WithVerbose(params_T2)
    /\ UNCHANGED <<args, prep, outs, loops, sim_ok, nhd_ok, v_T, ind, pos, mh, sims, eff,
                   singular>>

\* the outcome of one generation step of pluriGaussianSim_unconditional for
\* a field with covariance model cm: with a model the generator is run
\* (None ends the call with the None result); without one the list
\* comprehension evaluates range(nreal_T), a name bound nowhere, and the
\* call raises NameError
UncondField(cm, field, next) ==
    IF cm # 0
      THEN \E r \in UncondRuns :
             /\ eff' = [eff EXCEPT !.gen = TRUE]
             /\ IF r = <<>> /\ args.nreal > 0
                  THEN pc' = "done" /\ out' = UncondNone /\ field' = field
                  ELSE pc' = next /\ out' = out /\ field' = r
      ELSE pc' = "raised" /\ UNCHANGED <<out, eff>> /\ field' = field

\* lines 216-230
UncondT1 ==
    /\ pc = "u_T1"
    /\ UncondField(cm1, T1, "u_T2")
    /\ UNCHANGED <<given, prep, Z, T2, n_cond_ok, loops, sim_ok, nhd_ok, v_T, ind, pos, mh,
                   sims, singular>>

\* lines 232-246
UncondT2 ==
    /\ pc = "u_T2"
    /\ UncondField(cm2, T2, "u_return")
    /\ UNCHANGED <<given, prep, Z, T1, n_cond_ok, loops, sim_ok, nhd_ok, v_T, ind, pos, mh,
                   sims, singular>>

\* lines 248-259: Z = flag_value(sim_T1, sim_T2) and the return
UncondReturn ==
    /\ pc = "u_return"
    /\ Z' = [r \in 1..Len(T1) |-> FlagField(T1[r], T2[r])]
    /\ out' = (IF args.full_output THEN "Z, T1, T2" ELSE "Z")
    /\ pc' = "done"
    /\ UNCHANGED <<given, prep, T1, T2, n_cond_ok, loops, sim_ok, nhd_ok, v_T, ind, pos, mh,
                   sims, eff, singular>>

Next ==
    \/ Validate \/ IndexData \/ BuildKriging \/ SetParams
    \/ ForReal \/ StartTry
    \/ UncondGenerate
    \/ InitT1 \/ InitT2 \/ MHIter \/ MHVisit \/ PostMH
    \/ Generate \/ Emit \/ Return
    \/ UncondValidate \/ UncondT1 \/ UncondT2 \/ UncondReturn


\* ----------------------------------------------------------- initial states
\* a call in one dimension with the default arguments that pass validation
Base ==
    [func |-> "pluriGaussianSim", flag_callable |-> TRUE, rule |-> "t1",
     algo_T1 |-> "fft", algo_T2 |-> "deterministic",
     cm_T1 |-> 1, cm_T2 |-> 0, cov_T1 |-> "pd", cov_T2 |-> "pd",
     dim_len |-> 1, spacing_len |-> -1, origin_len |-> -1,
     mean_T1 |-> "absent", var_T1 |-> "absent",
     mean_T2 |-> "absent", var_T2 |-> "absent",
     x_given |-> TRUE, v_given |-> TRUE, x |-> <<1>>, v |-> <<1>>,
     accept_init |-> 1, accept_pow |-> 2,
     mh_iter_min |-> 1, mh_iter_max |-> 2,
     ntry_max |-> 1, retrieve_real_anyway |-> FALSE,
     nreal |-> 1, full_output |-> TRUE]

\* sequences of length n over S
SeqsOf(S, n) == [1..n -> S]

\* coordinates of the cell centres of the grid, in half cells
Centres == {2 * c + 1 : c \in 0..(GridNx - 1)}

\* conditioning data <<x, v>>: up to MaxPts points at the centres of distinct
\* cells, in the order of the cells (DupArgs has the points in any order),
\* required categories 1, 2 and 3 (which no rule returns)
DataSets ==
    UNION {{<<xx, vv>> : xx \in {s \in SeqsOf(Centres, n) :
                                   \A i, i2 \in 1..n : i < i2 => s[i] < s[i2]},
                         vv \in SeqsOf({1, 2, 3}, n)}
           : n \in 0..MaxPts}

\* latent fields and form of dimension:
\* <<algo_T1, cov_T1, var_T1, mean_T1, algo_T2, cov_T2, var_T2, dim_len>>
\* (a variance given over the grid passes the validation in one dimension with
\* an int dimension only, a deterministic field needs a sequence)
FieldSets ==
    {<<"fft", "pd", "absent", "absent", "deterministic", "pd", "absent", 1>>,
     <<"fft", "pd", "grid", "absent", "fft", "pd", "absent", 0>>,
     <<"classic", "zero", "absent", "scalar", "deterministic", "pd", "absent", 1>>,
     <<"deterministic", "pd", "absent", "scalar", "deterministic", "pd", "absent", 1>>}

WithFields(a, fs) ==
    [a EXCEPT !.algo_T1 = fs[1], !.cov_T1 = fs[2], !.var_T1 = fs[3], !.mean_T1 = fs[4],
              !.algo_T2 = fs[5], !.cm_T2 = IF fs[5] = "deterministic" THEN 0 ELSE 1,
              !.cov_T2 = fs[6], !.var_T2 = fs[7], !.dim_len = fs[8],
              !.rule = IF fs[5] = "deterministic" THEN "t1" ELSE "and"]

\* calls that exercise the Metropolis-Hastings loop of one target in one try
RunArgs ==
    {[WithFields(Base, fs) EXCEPT
        !.x = dat[1], !.v = dat[2],
        !.mh_iter_min = mn, !.mh_iter_max = mx,
        !.retrieve_real_anyway = rr, !.accept_init = ai]
     : fs \in FieldSets, dat \in DataSets, mn \in 0..MaxIter, mx \in 0..MaxIter,
       rr \in BOOLEAN, ai \in {0, 1}}

\* calls that exercise the loops over the targets and the tries, with one
\* iteration
BatchArgs ==
    {[WithFields(Base, fs) EXCEPT
        !.x_given = dat[1], !.v_given = dat[1], !.x = dat[2], !.v = dat[3],
        !.mh_iter_min = mn, !.mh_iter_max = 1,
        !.ntry_max = nt, !.retrieve_real_anyway = rr, !.nreal = nr]
     : fs \in FieldSets,
       dat \in {<<FALSE, <<>>, <<>>>>, <<TRUE, <<1>>, <<1>>>>, <<TRUE, <<1>>, <<3>>>>,
                <<TRUE, <<1, 3>>, <<1, 1>>>>},
       mn \in 0..1, nt \in 0..MaxTry, rr \in BOOLEAN, nr \in 0..MaxReal}

\* calls with two simulated fields and the variance of T2 given over the
\* grid, with one target, one try and one iteration
VarT2Args ==
    {[WithFields(Base, <<"fft", "pd", "absent", "absent", "fft", "pd", "grid", 0>>) EXCEPT
        !.x = dat[1], !.v = dat[2], !.mh_iter_min = 0, !.mh_iter_max = 1]
     : dat \in DataSets}

InitWith(A) ==
    /\ args \in A
    /\ pc = (IF args.func = "pluriGaussianSim" THEN "validate" ELSE "u_validate")
    /\ out = "unset"
    /\ x = <<>> /\ v = <<>> /\ mat_T1 = <<>> /\ mat_T2 = <<>>
    /\ Z = <<>> /\ T1 = <<>> /\ T2 = <<>> /\ n_cond_ok = <<>>
    /\ ireal = -1 /\ ntry = -1 /\ ntries = 0 /\ nemit = 0
    /\ sim_ok = TRUE /\ nhd_ok = <<>>
    /\ v_T = <<>> /\ ind = <<>> /\ pos = 1 /\ nit = 0 /\ hd_ok = <<>>
    /\ stop_mh = FALSE /\ p_accept = Unbound /\ v_T_k_new = <<0, 0>>
    /\ sim_T1 = NoField /\ sim_T2 = NoField
    /\ eff = [draw |-> FALSE, solve |-> FALSE, gen |-> FALSE]
    /\ nomit = 0 /\ singular = FALSE /\ ncand = <<>>
    /\ params_T1 = Params(args.mean_T1, args.var_T1)
    /\ params_T2 = Params(args.mean_T2, args.var_T2)

\* calls that exercise the validation: algorithms, covariance models and the
\* form of dimension, with one target, one try and one iteration
ValData ==
    {<<FALSE, FALSE, <<>>, <<>>>>, <<TRUE, TRUE, <<1>>, <<1>>>>,
     <<TRUE, TRUE, <<1, 1>>, <<1>>>>, <<TRUE, TRUE, <<1>>, <<1, 1>>>>,
     <<TRUE, FALSE, <<1>>, <<>>>>, <<FALSE, TRUE, <<>>, <<1>>>>}

ValBase == [Base EXCEPT !.mh_iter_min = 0, !.mh_iter_max = 1]

WithData(a, dat) ==
    [a EXCEPT !.x_given = dat[1], !.v_given = dat[2], !.x = dat[3], !.v = dat[4]]

ValCalls ==
    {[WithData(ValBase, dat) EXCEPT
        !.algo_T1 = a1, !.algo_T2 = a2, !.cm_T1 = c1, !.cm_T2 = c2, !.dim_len = dl,
        !.rule = IF a2 = "deterministic" THEN "t1" ELSE "and"]
     : a1 \in {"fft", "deterministic", "bogus"}, a2 \in {"fft", "deterministic", "bogus"},
       c1 \in {0, 1, 2, 9}, c2 \in {0, 1, 2}, dl \in 0..2, dat \in ValData}
    \cup
    {[WithData(ValBase, dat) EXCEPT
        !.flag_callable = fc, !.cm_T1 = c1, !.dim_len = dl,
        !.spacing_len = so[1], !.origin_len = so[2],
        !.mean_T1 = mv[1], !.var_T1 = mv[2], !.mean_T2 = mv[3], !.var_T2 = mv[4]]
     : fc \in BOOLEAN, c1 \in {1, 2}, dl \in 0..2,
       so \in {<<-1, -1>>, <<1, -1>>, <<2, -1>>, <<-1, 1>>, <<-1, 2>>},
       mv \in {<<"absent", "absent", "absent", "absent">>,
               <<"bad", "absent", "absent", "absent">>,
               <<"absent", "bad", "absent", "absent">>,
               <<"absent", "absent", "bad", "absent">>,
               <<"absent", "absent", "absent", "bad">>,
               <<"grid", "absent", "absent", "absent">>},
       dat \in {d3 \in ValData : d3[3] # <<>> /\ d3[2]} \cup {<<FALSE, FALSE, <<>>, <<>>>>}}

\* of these, the calls whose x holds whole points of the space dimension
ValArgs == {a \in ValCalls : a.x_given => Len(a.x) % SpaceDim(a) = 0}

\* coordinates inside the grid, in half cells: cell centres and the
\* boundaries between cells
Inside == 1..(2 * GridNx - 1)

\* <<nreal, ntry_max, retrieve_real_anyway>> of the calls with the values vv:
\* one target of one try, and several of them for two points with different
\* values
DupLoops(vv) ==
    {<<1, 1, FALSE>>} \cup
    (IF Len(vv) = 2 /\ vv[1] # vv[2] THEN {<<MaxReal, MaxTry, TRUE>>} ELSE {})

\* calls whose conditioning points may fall into one cell: up to MaxPts + 1
\* points, among them points supplied twice, with categories 1 and 2
DupArgs ==
    UNION {{[Base EXCEPT
               !.x = xx, !.v = vv, !.mh_iter_min = 0, !.mh_iter_max = 1,
               !.nreal = rt[1], !.ntry_max = rt[2], !.retrieve_real_anyway = rt[3]]
            : xx \in SeqsOf(Inside, Len(vv)), rt \in DupLoops(vv)}
           : vv \in UNION {SeqsOf({1, 2}, n) : n \in 2..(MaxPts + 1)}}

\* calls of pluriGaussianSim_unconditional: algorithms, covariance models,
\* form of dimension, number of realizations
UncondArgs ==
    {[Base EXCEPT
        !.func = "pluriGaussianSim_unconditional",
        !.x_given = FALSE, !.v_given = FALSE, !.x = <<>>, !.v = <<>>,
        !.algo_T1 = a1, !.algo_T2 = a2, !.cm_T1 = c1, !.cm_T2 = c2, !.dim_len = dl,
        !.mean_T1 = mk, !.mean_T2 = mk,
        !.rule = IF a2 = "deterministic" THEN "t1" ELSE "and",
        !.nreal = nr, !.full_output = fo]
     : a1 \in {"fft", "deterministic", "bogus"}, a2 \in {"fft", "deterministic"},
       c1 \in {0, 1, 2}, c2 \in {0, 1, 2}, dl \in 0..2, mk \in {"absent", "scalar"},
       nr \in 0..MaxReal, fo \in BOOLEAN}

\* coordinates from the origin to the far border of the grid, in half cells
OnGrid == 0..(2 * GridNx)

\* calls with one conditioning point anywhere on a grid of 1, 2 or 3
\* dimensions, cell borders included, without iteration
CellArgs ==
    UNION {{[Base EXCEPT
               !.algo_T2 = "fft", !.cm_T1 = dd, !.cm_T2 = dd, !.dim_len = dd,
               !.rule = "and", !.x = xx, !.v = <<1>>,
               !.mh_iter_min = 0, !.mh_iter_max = 0]
            : xx \in SeqsOf(OnGrid, dd)}
           : dd \in 1..3}

Init ==
    InitWith(RunArgs \cup BatchArgs \cup VarT2Args \cup ValArgs \cup DupArgs \cup UncondArgs
             \cup CellArgs)

Spec == Init /\ [][Next]_vars

\* the calls followed to their end: the batches, the calls of the
\* validation, and the calls whose loop can only end at mh_iter_max
LiveArgs ==
    BatchArgs \cup ValArgs \cup UncondArgs
        \cup {a \in RunArgs : a.mh_iter_max = MaxIter /\ a.mh_iter_min >= MaxIter}

\* the interpreter always takes the next step of the call
FairSpec == InitWith(LiveArgs) /\ [][Next]_vars /\ WF_vars(Next)

\* ------------------------------------------------------------- properties
\* a step that appends a realization to Z
Emits == pc = "emit" /\ Len(Z') = Len(Z) + 1

\* C1: in a conditional run with retrieve_real_anyway = False, a try that has
\* reached the emission, and the try that has appended the realization of the
\* target to Z, has a history that ends with npt and latent values that
\* honour all the npt points, whatever failed tries, singular systems and
\* iterations came before; the history returned for the realization ends
\* with npt.
C1_EmittedHonoursAll ==
    (/\ args.func = "pluriGaussianSim" /\ args.x_given /\ ~args.retrieve_real_anyway
     /\ nemit = 1 \/ (pc = "emit" /\ sim_ok))
        => /\ nhd_ok # <<>>
           /\ Last(nhd_ok) = npt
           /\ NumOk(HdOk(v_T)) = npt
           /\ (nemit = 1 /\ args.full_output)
                => (n_cond_ok # <<>> /\ Last(Last(n_cond_ok)) = npt)

\* a realization has been emitted by the second try of a target, with two
\* conditioning points and retrieve_real_anyway = False
C1_Witness ==
    /\ pc = "for_ireal" /\ nemit = 1 /\ ntry = 1
    /\ args.x_given /\ ~args.retrieve_real_anyway /\ npt = 2

\* C2: a try whose latent values do not honour all the points reaches the
\* generation and the emission, and appends its realization to Z, only as
\* the last allowed try and with retrieve_real_anyway = True; a target is
\* left without a result only when the tries are used up, also with
\* retrieve_real_anyway.
C2_PartialOnlyOnLastTry ==
    (args.func = "pluriGaussianSim" /\ args.x_given)
        => /\ (/\ (pc \in {"generate", "emit"} /\ sim_ok) \/ nemit = 1
               /\ NumOk(HdOk(v_T)) # npt)
                => (ntry = args.ntry_max - 1 /\ args.retrieve_real_anyway)
           /\ (pc = "for_ireal" /\ ireal >= 0 /\ nemit = 0)
                => (ntry = args.ntry_max - 1 /\ ntries = args.ntry_max)

\* the second try of a target has emitted a realization that honours one of
\* two points
C2_Witness ==
    /\ pc = "for_ireal" /\ nemit = 1 /\ ntry = 1 /\ args.ntry_max = 2
    /\ args.x_given /\ args.retrieve_real_anyway
    /\ npt = 2 /\ Last(nhd_ok) = 1

\* C3: when the loop has stopped by stop_mh, the iteration nit it stopped at
\* (the index of the last entry of the history) is >= mh_iter_min, the count
\* at that iteration is npt, and at no earlier iteration >= mh_iter_min the
\* count was npt; a sweep is never run at an iteration >= mh_iter_min whose
\* count is npt, and never with stop_mh set.
C3_StopAtFirstFullCount ==
    /\ (pc \in {"post_mh", "generate", "emit"} /\ sim_ok /\ stop_mh)
         => /\ nhd_ok # <<>>
            /\ Len(nhd_ok) - 1 >= args.mh_iter_min
            /\ Last(nhd_ok) = npt
            /\ NumOk(HdOk(v_T)) = npt
            /\ \A i \in 1..(Len(nhd_ok) - 1) :
                   i - 1 >= args.mh_iter_min => nhd_ok[i] # npt
    /\ pc = "mh_sweep"
         => /\ ~stop_mh
            /\ Len(nhd_ok) = nit + 1
            /\ ~(nit >= args.mh_iter_min /\ Last(nhd_ok) = npt)

\* the loop has stopped at iteration 1 = mh_iter_min although every point was
\* honoured at iteration 0 already
C3_Witness ==
    /\ pc = "post_mh" /\ stop_mh /\ sim_ok
    /\ npt >= 1 /\ args.mh_iter_min = 1
    /\ Len(nhd_ok) = 2 /\ nhd_ok[1] = npt

\* history h does not decrease from the entry of iteration mh_iter_min on
Monotone(h) ==
    \A i, j \in 1..Len(h) :
        (args.mh_iter_min <= i - 1 /\ i <= j) => h[i] <= h[j]

\* C4: within a try the history of honoured counts does not decrease from the
\* entry of iteration mh_iter_min on, the entry appended after the loop
\* included; so does every history returned in n_cond_ok.
C4_MonotoneFromIterMin ==
    /\ Monotone(nhd_ok)
    /\ \A r \in 1..Len(n_cond_ok) : Monotone(n_cond_ok[r])

\* the loop has run out of iterations and the entry appended after it is
\* larger than the entry of the last iteration, which is >= mh_iter_min
C4_Witness ==
    /\ pc \in {"generate", "for_ntry"} /\ sim_ok /\ ~stop_mh
    /\ args.x_given /\ args.mh_iter_max >= 1
    /\ args.mh_iter_min <= args.mh_iter_max - 1
    /\ Len(nhd_ok) = args.mh_iter_max + 1
    /\ nhd_ok[Len(nhd_ok) - 1] < Last(nhd_ok)

\* a step of the sweep that has evaluated a candidate for the point ind[pos]
Evaluates ==
    /\ pc = "mh_sweep" /\ pos <= npt /\ pos' = pos + 1
    /\ ~Skip(nit, ind[pos])

\* C5: a candidate whose image by flag_value is v[k] replaces the latent
\* values of point k at every iteration; a candidate whose image differs
\* leaves them as they are when nit >= mh_iter_min, and also when
\* p_accept is 0; no other point changes.
C5_AcceptanceRule ==
    [][Evaluates =>
         LET k    == ind[pos]
             cand == v_T_k_new'
             good == FlagValue(args.rule, cand[1], cand[2]) = v[k]
         IN  /\ good => v_T'[k] = cand
             /\ (~good /\ nit >= args.mh_iter_min) => v_T'[k] = v_T[k]
             /\ (~good /\ p_accept[1] = 0) => v_T'[k] = v_T[k]
             /\ v_T'[k] \in {cand, v_T[k]}
             /\ \A j \in 1..npt : j # k => v_T'[j] = v_T[j]]_vars

\* at an iteration < mh_iter_min a point that was honoured at the start of
\* the iteration now holds the last candidate, whose image differs from v[k]
C5_Witness ==
    /\ pc = "mh_sweep" /\ nit < args.mh_iter_min /\ pos >= 2
    /\ LET k == ind[pos - 1]
       IN  /\ hd_ok[k]
           /\ v_T[k] = v_T_k_new
           /\ FlagValue(args.rule, v_T_k_new[1], v_T_k_new[2]) # v[k]

\* C6: during a sweep of an iteration nit >= mh_iter_min no step changes the
\* latent values of a point that was honoured at the start of the iteration.
C6_HonouredUntouched ==
    [][(pc = "mh_sweep" /\ nit >= args.mh_iter_min)
         => \A k \in 1..npt : hd_ok[k] => v_T'[k] = v_T[k]]_vars

\* the sweep of an iteration >= mh_iter_min is over: of two points, the one
\* honoured at the start was passed and the other one now holds a candidate
\* that honours it
C6_Witness ==
    /\ pc = "mh_sweep" /\ nit >= args.mh_iter_min /\ pos = npt + 1 /\ npt = 2
    /\ \E k, j \in 1..npt :
          /\ hd_ok[k] /\ ~hd_ok[j]
          /\ v_T[j] = v_T_k_new
          /\ HdOk(v_T)[j] /\ HdOk(v_T)[k]

\* C7: at most ntry_max tries are started for a target; once a result has
\* been emitted for the target the loop over the tries is left, so that no
\* try is started for it; at most one result is emitted per target, and Z
\* never holds more than nreal realizations.
C7_TriesAndResultsBounded ==
    args.func = "pluriGaussianSim"
        => /\ ntries <= args.ntry_max
           /\ nemit <= 1
           /\ Len(Z) <= ireal + 1
           /\ Len(Z) <= args.nreal
           /\ nemit = 1 => pc \in {"for_ireal", "return", "done"}

\* two targets, two tries allowed: the call is about to return two results,
\* the second one emitted by the second try
C7_Witness ==
    /\ pc = "return" /\ args.nreal = 2 /\ args.ntry_max = 2
    /\ Len(Z) = 2 /\ ntries = 2 /\ nemit = 1

\* C8: once the loop over the targets has started the call does not raise;
\* a target is left without a result only after ntry_max tries; when the
\* call returns, every target has been taken in turn and Z holds nreal
\* realizations less the omitted targets.
C8_FailuresAbsorbed ==
    /\ pc = "raised" => ireal = -1
    /\ (pc = "for_ireal" /\ ireal >= 0 /\ nemit = 0) => ntries = args.ntry_max
    /\ (/\ args.func = "pluriGaussianSim"
        /\ pc = "return" \/ (pc = "done" /\ out \in {"Z", "Z, T1, T2, n_cond_ok"}))
         => /\ ireal = args.nreal - 1
            /\ Len(Z) + nomit = args.nreal

\* the call has returned one realization for two targets: the first target
\* got a result, the last try of the second one hit a singular system
C8_Witness ==
    /\ pc = "done" /\ out = "Z, T1, T2, n_cond_ok"
    /\ args.nreal = 2 /\ Len(Z) = 1 /\ nomit = 1 /\ nemit = 0 /\ singular

\* C9 as stated: with retrieve_real_anyway = True, the last allowed try of a
\* target that hits a singular kriging system still yields a realization.
C9_SingularLastTryEmits ==
    (/\ pc = "for_ireal" /\ ireal >= 0
     /\ singular /\ args.retrieve_real_anyway /\ ntry = args.ntry_max - 1)
        => nemit = 1

\* C9, amended: a try that has hit a singular kriging system is abandoned
\* whatever retrieve_real_anyway: it reaches neither the generation nor the
\* emission, nothing is appended to the outputs for the target, and when it
\* was the last try the target is left without a result.
C9_SingularTryAbandoned ==
    singular =>
        /\ pc \notin {"generate", "emit"}
        /\ ~sim_ok
        /\ nemit = 0
        /\ Len(Z) + nomit = (IF pc \in {"return", "done"} THEN ireal + 1 ELSE ireal)
        /\ args.full_output
             => (Len(T1) = Len(Z) /\ Len(T2) = Len(Z) /\ Len(n_cond_ok) = Len(Z))

\* retrieve_real_anyway = True, the last allowed try has hit a singular
\* system in the Metropolis-Hastings loop and the target has no result
C9_Witness ==
    /\ pc = "for_ireal" /\ ireal >= 0 /\ nemit = 0
    /\ singular /\ args.retrieve_real_anyway /\ ntry = args.ntry_max - 1
    /\ nhd_ok # <<>>

\* dimensions declared by the arguments of a: the covariance models in use,
\* dimension (an int stands for one axis), and spacing and origin when they
\* are sequences
DeclaredDims(a) ==
    ({EffCm(a.cm_T1, a.algo_T1), EffCm(a.cm_T2, a.algo_T2)} \cap {1, 2, 3})
    \cup {IF a.dim_len > 0 THEN a.dim_len ELSE 1}
    \cup ({a.spacing_len, a.origin_len} \cap {1, 2, 3})

\* the arguments a have one of the defects C10 lists
InvalidList(a) ==
    \/ ~a.flag_callable
    \/ a.algo_T1 \notin {"fft", "classic", "deterministic"}
    \/ a.algo_T2 \notin {"fft", "classic", "deterministic"}
    \/ a.cm_T1 = 0 /\ ~IsDet(a.algo_T1)
    \/ a.cm_T2 = 0 /\ ~IsDet(a.algo_T2)
    \/ Cardinality(DeclaredDims(a)) > 1
    \/ "bad" \in {a.mean_T1, a.var_T1, a.mean_T2, a.var_T2}
    \/ a.x_given # a.v_given
    \/ /\ a.x_given /\ a.v_given
       /\ \A n \in DeclaredDims(a) : Len(a.x) % n = 0 /\ Len(a.v) # Len(a.x) \div n

\* a call of pluriGaussianSim whose arguments have one of these defects
InvalidArgs(a) == a.func = "pluriGaussianSim" /\ InvalidList(a)

\* C10 as stated: a call whose arguments have one of the listed defects
\* makes no random draw, no kriging solve and no field generation, emits
\* nothing, does not raise, and returns the None result.
C10_InvalidArgsRejected ==
    InvalidArgs(args)
        => /\ ~eff.draw /\ ~eff.solve /\ ~eff.gen
           /\ Z = <<>>
           /\ pc # "raised"
           /\ pc = "done" => out = (IF args.full_output THEN "None4" ELSE "None")

\* rows i and j of the input fall into one grid cell
SameCell(i, j) ==
    CellIndex(SpaceDim(args), Reshape(args)[i]) = CellIndex(SpaceDim(args), Reshape(args)[j])

\* two points of the input fall into one grid cell with different values
Colliding ==
    /\ args.x_given /\ args.v_given
    /\ Len(args.v) >= 2 /\ Len(args.x) = SpaceDim(args) * Len(args.v)
    /\ \E i, j \in 1..Len(args.v) : args.v[i] # args.v[j] /\ SameCell(i, j)

\* C11: when two conditioning points fall into one grid cell with different
\* values, the call never starts a target nor a try, makes no draw, solve or
\* generation, and ends with the None result, whatever nreal, ntry_max and
\* retrieve_real_anyway (stated from the other side: a call that gets
\* further, or returns something else, has no such points).
C11_InconsistentDataFatal ==
    (\/ pc \notin {"validate", "index", "done"}
     \/ ireal # -1 \/ ntries # 0 \/ Z # <<>>
     \/ eff.draw \/ eff.solve \/ eff.gen
     \/ pc = "done" /\ out # (IF args.full_output THEN "None4" ELSE "None"))
        => ~Colliding

\* a call for two targets with two tries and retrieve_real_anyway has ended
\* with the None result on colliding points with different values
C11_Witness ==
    /\ Colliding /\ pc = "done" /\ out = "None4"
    /\ args.nreal = 2 /\ args.ntry_max = 2 /\ args.retrieve_real_anyway

\* the call has got past the indexing step (a call that raised before has
\* no point)
Indexed ==
    /\ args.func = "pluriGaussianSim"
    /\ \/ pc \notin {"validate", "index", "raised", "done"}
       \/ pc = "raised" /\ x # <<>>
       \/ pc = "done" /\ out \in {"Z", "Z, T1, T2, n_cond_ok"}

\* C12: the indexing step of a call that goes on leaves conditioning points
\* of which no two share a grid cell, npt being the number of distinct cells
\* of the input, and every point kept is the first point of the input in its
\* cell, with the value given for it (the input as it is when no two of its
\* points share a cell, the points kept in the order of their cells
\* otherwise); they are the same at every later position of the call.
C12_OnePointPerCell ==
    Indexed
        => /\ \A k, k2 \in 1..Len(x) :
                 k # k2 => CellIndex(d, x[k]) # CellIndex(d, x[k2])
           /\ Len(x) = Cardinality({CellIndex(d, Reshape(args)[i]) :
                                      i \in 1..Len(args.v)})
           /\ Len(v) = Len(x)
           /\ \A k \in 1..Len(x) : \E i \in 1..Len(args.v) :
                 /\ x[k] = Reshape(args)[i] /\ v[k] = args.v[i]
                 /\ \A i2 \in 1..(i - 1) : ~SameCell(i2, i)
           /\ IF Len(x) = Len(args.v)
                THEN x = Reshape(args) /\ v = args.v
                ELSE \A k, k2 \in 1..Len(x) :
                        k < k2 => CellIndex(d, x[k]) < CellIndex(d, x[k2])

\* three points were given, two of them at different places of one cell, and
\* two points are kept
C12_Witness ==
    /\ pc = "matrices" /\ args.x_given /\ Len(args.v) = 3 /\ npt = 2
    /\ \E i, j \in 1..3 : i < j /\ SameCell(i, j) /\ args.x[i] # args.x[j]

\* sequence s without its entry j
RemoveAt(s, j) == [q \in 1..(Len(s) - 1) |-> IF q < j THEN s[q] ELSE s[q + 1]]

\* row j of the input repeats an earlier row, place and value
Repeated(j) ==
    \E i \in 1..(j - 1) : Reshape(args)[i] = Reshape(args)[j] /\ args.v[i] = args.v[j]

\* C13 as stated: when a point of the input is supplied again with the same
\* value, the conditioning data kept (points in their order, values, npt)
\* are those kept for the input without the repetition.
C13_DedupIdempotent ==
    (pc = "matrices" /\ d = 1)
        => \A j \in 1..Len(args.v) :
              Repeated(j) => <<x, v>> = KeptData(d, RemoveAt(Reshape(args), j),
                                                 RemoveAt(args.v, j))

\* the call has no conditioning point: x is None, or x and v are empty
ZeroPoints ==
    /\ args.func = "pluriGaussianSim"
    /\ ~args.x_given \/ (args.v_given /\ args.x = <<>> /\ args.v = <<>>)

\* C14 as stated: a call without conditioning points behaves as the
\* unconditional composition: it runs no sequential initialization and no
\* Metropolis-Hastings iteration, solves no kriging system, raises only where
\* the call with x = None raises, every emitted Z is flag_value of the two
\* generated fields and every history returned is empty.
C14_ZeroPointsUnconditional ==
    ZeroPoints
        => /\ pc \notin {"init_T1", "init_T2", "mh_iter", "mh_sweep", "post_mh"}
           /\ nhd_ok = <<>>
           /\ ~eff.solve
           /\ pc = "raised" => ((cm1 = 0 \/ cm2 = 0) /\ args.dim_len = 0)
           /\ \A r \in 1..Len(n_cond_ok) : n_cond_ok[r] = <<>>
           /\ \A r \in 1..Len(T1) : \A c \in DOMAIN Z[r] :
                 Z[r][c] = FlagValue(args.rule, T1[r][c], T2[r][c])

\* the point-level latent values when both fields are deterministic
MeanValues == [k \in 1..npt |-> <<Mean1(k), Mean2(k)>>]

\* C15: when both latent fields are deterministic, from the end of the
\* initialization on the latent values at the conditioning points are the
\* configured means and every count of the history is the count of these
\* means; the loop stops by stop_mh only with all points honoured and at
\* iteration mh_iter_min, at iteration 0 with a single entry when
\* mh_iter_min = 0 and all points are honoured, and never when a point is
\* not honoured.
C15_DeterministicFieldsFrozen ==
    (/\ pc \in {"mh_iter", "mh_sweep", "post_mh", "generate", "emit"}
     /\ cm1 = 0 /\ cm2 = 0 /\ args.x_given)
        => LET cnt == NumOk(HdOk(MeanValues))
           IN  /\ v_T = MeanValues
               /\ \A i \in 1..Len(nhd_ok) : nhd_ok[i] = cnt
               /\ stop_mh => cnt = npt /\ nit = args.mh_iter_min
               /\ cnt # npt => ~stop_mh
               /\ (/\ cnt = npt /\ args.mh_iter_min = 0 /\ args.mh_iter_max > 0
                   /\ pc \in {"post_mh", "generate", "emit"})
                      => stop_mh /\ nit = 0 /\ nhd_ok = <<npt>>

\* two sweeps over two points of two deterministic fields, one point not
\* honoured, have been done
C15_Witness ==
    /\ pc = "post_mh" /\ cm1 = 0 /\ cm2 = 0 /\ args.x_given
    /\ npt = 2 /\ nit = 2 /\ nhd_ok = <<1, 1>> /\ v_T = MeanValues

\* the Metropolis-Hastings iterations done in the current try: the body of
\* the loop has been entered nit times when the loop is exhausted, and
\* nit + 1 times, the last one left at the stop test, when it stopped
IterationsDone == IF stop_mh THEN nit + 1 ELSE nit

\* C16 as stated: the history returned for an emitted conditional
\* realization has as many entries as Metropolis-Hastings iterations were
\* done in the try that produced it, whether the loop stopped by stop_mh
\* or ran to mh_iter_max.
C16_HistoryLengthIsIterations ==
    [][(Emits /\ args.x_given /\ args.full_output)
          => Len(Last(n_cond_ok')) = IterationsDone]_vars

\* C17: when the fields of a conditional try are generated, and up to the
\* emission, the last entry of the history is the number of points honoured
\* by the current latent values v_T (so is it after the stop test that ended
\* the loop), and these are the values the generated fields take at the
\* conditioning points; the history returned with an emitted realization
\* ends with that count.
C17_LastCountIsFinalCount ==
    (args.func = "pluriGaussianSim" /\ args.x_given)
        => /\ (pc \in {"generate", "emit"} \/ (pc = "post_mh" /\ sim_ok /\ stop_mh))
                => (nhd_ok # <<>> /\ Last(nhd_ok) = NumOk(HdOk(v_T)))
           /\ (pc = "emit" /\ cm1 # 0 /\ ~sim_T1.none)
                => \A k \in 1..npt : sim_T1.f[Cells[k]] = v_T[k][1]
           /\ (pc = "emit" /\ cm2 # 0 /\ ~sim_T2.none)
                => \A k \in 1..npt : sim_T2.f[Cells[k]] = v_T[k][2]
           /\ (nemit = 1 /\ args.full_output)
                => Last(Last(n_cond_ok)) = NumOk(HdOk(v_T))

\* a realization has been emitted after a loop that ran to mh_iter_max and
\* whose last sweep changed the count
C17_Witness ==
    /\ pc = "for_ireal" /\ args.x_given /\ args.full_output
    /\ Len(n_cond_ok) = 1 /\ n_cond_ok[1] = nhd_ok
    /\ ~stop_mh /\ nit = args.mh_iter_max
    /\ Len(nhd_ok) >= 2 /\ nhd_ok[Len(nhd_ok) - 1] # Last(nhd_ok)
    /\ cm1 # 0 /\ ~sim_T1.none

\* the call has returned the four results of full_output
ReturnedFull == pc = "done" /\ out = "Z, T1, T2, n_cond_ok"

EarlySweep == pc = "mh_sweep" /\ nit < args.mh_iter_min

Terminated == pc \in {"done", "raised"}

\* the budgets of the loops: targets, tries, iterations, visits of a sweep
WithinBudgets ==
    /\ ireal < args.nreal \/ args.nreal <= 0
    /\ ntries <= args.ntry_max \/ args.ntry_max <= 0
    /\ ireal >= 0 => ireal * args.ntry_max + ntries <= args.nreal * args.ntry_max
    /\ pc \in {"mh_iter", "mh_sweep", "post_mh"}
          => nit <= args.mh_iter_max /\ pos <= npt + 1
    /\ pc = "mh_sweep" => nit < args.mh_iter_max

\* C21: every call terminates, by returning or raising, and on the way at
\* most nreal * ntry_max tries are started, a try does at most mh_iter_max
\* sweeps and a sweep visits at most npt points.
C21_Terminates == []WithinBudgets /\ <>Terminated

\* a try with a point that can never be honoured and mh_iter_min >=
\* mh_iter_max has used up its iterations, in a call that has returned
C21_Witness ==
    /\ pc = "done" /\ args.x_given /\ npt >= 1
    /\ args.mh_iter_min >= args.mh_iter_max /\ args.mh_iter_max = MaxIter
    /\ nit = MaxIter /\ ~stop_mh /\ Last(nhd_ok) < npt /\ ntries = args.ntry_max

\* the categories the truncation rule of the call can return
RuleRange == {FlagValue(args.rule, a, b) : a, b \in Vals}

\* the call has entered the loop over the targets, or has left it by
\* returning or raising, with a conditioning point whose required category
\* the rule never returns
Infeasible ==
    /\ args.func = "pluriGaussianSim"
    /\ \/ pc \in {"for_ireal", "for_ntry", "init_T1", "init_T2", "mh_iter", "mh_sweep",
                  "post_mh", "generate", "emit", "return"}
       \/ pc = "raised" /\ ireal >= 0
       \/ pc = "done" /\ out \in {"Z", "Z, T1, T2, n_cond_ok"}
    /\ args.x_given /\ \E k \in 1..npt : v[k] \notin RuleRange

\* C22: with retrieve_real_anyway = False and ntry_max >= 1, a call that has
\* entered the loop over the targets with a conditioning point that the rule
\* can never honour does not raise, generates no field, leaves Z empty, and
\* returns its results with every target omitted.
C22_InfeasibleOmitsAll ==
    (Infeasible /\ ~args.retrieve_real_anyway /\ args.ntry_max >= 1)
        => /\ pc \notin {"raised", "generate", "emit"}
           /\ Z = <<>> /\ nemit = 0 /\ ~eff.gen
           /\ pc = "done"
                 => /\ out = (IF args.full_output THEN "Z, T1, T2, n_cond_ok" ELSE "Z")
                    /\ nomit = args.nreal
                    /\ args.nreal >= 1 => Len(Z) < args.nreal

\* two targets of two tries each have been given up and the call has
\* returned an empty Z
C22_Witness ==
    /\ pc = "done" /\ out = "Z, T1, T2, n_cond_ok" /\ Z = <<>>
    /\ args.x_given /\ (\E k \in 1..npt : v[k] \notin RuleRange)
    /\ ~args.retrieve_real_anyway /\ args.ntry_max = 2 /\ args.nreal = 2
    /\ nomit = 2 /\ ntries = 2

\* C23: the generated fields taking the latent values at the cells of the
\* conditioning points, every realization emitted by a conditional call
\* with retrieve_real_anyway = False has, in the cell of every conditioning
\* point, the category required at that point.
C23_EmittedFieldHonoursData ==
    (args.func = "pluriGaussianSim" /\ args.x_given /\ ~args.retrieve_real_anyway)
        => \A r \in 1..Len(Z) : \A k \in 1..npt : Z[r][Cells[k]] = v[k]

\* a realization over the grid has been emitted for two points that
\* require different categories, after an iteration that changed a value
C23_Witness ==
    /\ pc = "for_ireal" /\ args.x_given /\ ~args.retrieve_real_anyway
    /\ npt = 2 /\ v[1] # v[2] /\ Len(Z) = 1 /\ nhd_ok = <<1, 2>>
    /\ \A k \in 1..npt : Z[1][Cells[k]] = v[k]

\* the latent values of the conditioning points are set
LatentSet == pc \in {"mh_iter", "mh_sweep", "post_mh", "generate", "emit"}

\* C24 as stated: in a call with valid arguments and at least one
\* conditioning point if any, a field whose algo is 'deterministic' is the
\* field given by its mean, whatever covariance model was passed: the call
\* does not raise, every latent field returned and every latent value at a
\* conditioning point is the mean there; and a call with a covariance model
\* None for a field whose algo is not 'deterministic' makes no step beyond
\* the validation and returns the None result.
C24_DeterministicFieldIsMean ==
    /\ ((IsDet(args.algo_T1) \/ IsDet(args.algo_T2))
        /\ args.func = "pluriGaussianSim"
        /\ ~InvalidList(args) /\ (args.x_given => args.x # <<>>))
          => /\ pc # "raised"
             /\ IsDet(args.algo_T1)
                   => /\ \A r \in 1..Len(T1) : T1[r] = MeanField(args.mean_T1).f
                      /\ LatentSet => \A k \in 1..npt : v_T[k][1] = Mean1(k)
             /\ IsDet(args.algo_T2)
                   => /\ \A r \in 1..Len(T2) : T2[r] = MeanField(args.mean_T2).f
                      /\ LatentSet => \A k \in 1..npt : v_T[k][2] = Mean2(k)
    /\ (/\ args.func = "pluriGaussianSim"
        /\ \/ args.cm_T1 = 0 /\ ~IsDet(args.algo_T1)
           \/ args.cm_T2 = 0 /\ ~IsDet(args.algo_T2))
          => /\ pc \in {"validate", "done"}
             /\ pc = "done" => out = (IF args.full_output THEN "None4" ELSE "None")

\* a call of pluriGaussianSim_unconditional that passes its validation,
\* with a deterministic field
UncondDeterministic ==
    /\ args.func = "pluriGaussianSim_unconditional"
    /\ UncondValidationError(args) = "ok"
    /\ cm1 = 0 \/ cm2 = 0

\* C25 as stated: pluriGaussianSim_unconditional with a deterministic field
\* does not raise, and when it returns its results the deterministic latent
\* field of each of the nreal realizations is the field given by the mean.
C25_UnconditionalDeterministic ==
    UncondDeterministic
        => /\ pc # "raised"
           /\ (pc = "done" /\ out = "Z, T1, T2")
                 => /\ Len(T1) = args.nreal /\ Len(T2) = args.nreal
                    /\ cm1 = 0 => \A r \in 1..Len(T1) : T1[r] = MeanField(args.mean_T1).f
                    /\ cm2 = 0 => \A r \in 1..Len(T2) : T2[r] = MeanField(args.mean_T2).f

\* the candidates point k gets in a sweep of iteration n, given the flags
\* h taken at the start of the iteration
Due(n, h, k) == IF n < args.mh_iter_min \/ ~h[k] THEN 1 ELSE 0

\* C26: a sweep follows a permutation of the conditioning points drawn when
\* the iteration starts, together with the flags of the honoured points,
\* which still describe every point the sweep has not visited; the visit of
\* a point is its first in the sweep and draws one candidate for it if
\* nit < mh_iter_min or the point was not honoured at the start of the
\* iteration, none otherwise, and draws none for another point; at the end
\* of a sweep every point has had exactly the candidates due to it.
C26_OneCandidatePerPointDue ==
    pc = "mh_sweep"
        => /\ Len(ind) = npt /\ {ind[i] : i \in 1..npt} = 1..npt
           /\ pos \in 1..(npt + 1)
           /\ Len(hd_ok) = npt /\ Len(ncand) = npt
           /\ pos = 1 => hd_ok = HdOk(v_T)
           /\ \A q \in 1..npt :
                 IF q < pos
                   THEN ncand[ind[q]] = Due(nit, hd_ok, ind[q])
                   ELSE ncand[ind[q]] = 0 /\ hd_ok[ind[q]] = HdOk(v_T)[ind[q]]

\* the end of a sweep past mh_iter_min over two points, the first one
\* honoured at the start of the iteration: only the second got a candidate
C26_Witness ==
    /\ pc = "mh_sweep" /\ npt = 2 /\ pos = 3
    /\ nit >= args.mh_iter_min /\ nit = 1
    /\ hd_ok = <<TRUE, FALSE>> /\ ncand = <<0, 1>> /\ ind = <<2, 1>>

\* the points visited by the current initialization loop before position p
VisitedBefore(p) == [i \in 1..(p - 1) |-> ind[i]]

\* one visit of the initialization of column col (1 for T1, 2 for T2), with
\* kriging matrix M, covariance at lag zero c0 and mean mu at the point:
\* the system over the points visited before is solved and the visit fails
\* exactly when it is singular; else the value of the visited point in
\* column col, and nothing else, is set, to a value that can be drawn given
\* the points visited before (to the mean without covariance model)
InitVisit(col, cm, M, c0, mu) ==
    LET k == ind[pos]
        B == VisitedBefore(pos)
    IN  /\ ind' = ind
        /\ (singular' /\ ~singular) <=> (cm # 0 /\ Singular(M, B))
        /\ ~singular'
              => /\ pos' = pos + 1
                 /\ \E val \in (IF cm # 0 THEN DrawVals(M, B, k, c0, mu) ELSE {mu}) :
                       v_T' = [v_T EXCEPT ![k][col] = val]

\* C27: the initialization of a latent field follows one permutation of the
\* conditioning points, drawn for this field, from its first to its last
\* position; a visit sets the value of the visited point only, drawn given
\* exactly the points at the positions before it: none at the first
\* position, which therefore never fails.
C27_SequentialInitialization ==
    [][/\ (pc \in {"init_T1", "init_T2"} \/ pc' \in {"init_T1", "init_T2"})
            => Len(ind') = npt /\ {ind'[i] : i \in 1..npt} = 1..npt
       /\ (pc # pc' /\ pc' \in {"init_T1", "init_T2"})
            => pos' = 1
       /\ (pc = "init_T1" /\ pc' = "init_T2") => pos = npt + 1 /\ v_T' = v_T
       /\ (pc = "init_T2" /\ pc' = "mh_iter") => pos = npt + 1 /\ v_T' = v_T
       /\ (pc = "init_T1" /\ pos <= npt)
            => InitVisit(1, cm1, mat_T1, Cov0_T1, Mean1(ind[pos]))
       /\ (pc = "init_T2" /\ pos <= npt)
            => InitVisit(2, cm2, mat_T2, Cov0_T2, Mean2(ind[pos]))
       /\ (pc \in {"init_T1", "init_T2"} /\ pos = 1) => ~singular']_vars

\* the initialization of T2 is at its last point of two, in the order 2, 1,
\* after the initialization of T1 set both values of T1
C27_Witness ==
    /\ pc = "init_T2" /\ npt = 2 /\ pos = 2 /\ ind = <<2, 1>>
    /\ cm1 # 0 /\ cm2 # 0 /\ v_T[1][1] = 1 /\ v_T[2][1] = 1 /\ v_T[2][2] = 1
    /\ ~singular

\* the positions of a try, from its initialization to its emission
InTry == pc \in {"init_T1", "init_T2", "mh_iter", "mh_sweep", "post_mh", "generate", "emit"}

\* C28: the step in which a kriging solve fails, in the initialization of
\* T1 or T2 or in a sweep, clears sim_ok and leaves the loops of the try
\* without setting a latent value; from there the try only goes to the
\* head of the loop over the tries: no point is visited, no count is taken,
\* no field is generated and nothing is appended to Z, T1, T2 or
\* n_cond_ok; the next try, if one is left, starts afresh, else the target
\* is left.
C28_SingularAbortsTry ==
    [][/\ (singular' /\ ~singular)
            => /\ pc \in {"init_T1", "init_T2", "mh_sweep"}
               /\ pc' \in {"for_ntry", "post_mh"}
               /\ ~sim_ok'
               /\ UNCHANGED <<v_T, pos, nhd_ok, outs, sims>>
       /\ (singular /\ InTry)
            => /\ pc = "post_mh" /\ pc' = "for_ntry"
               /\ UNCHANGED <<v_T, v_T_k_new, pos, nit, nhd_ok, outs, sims, eff, ncand>>
       /\ (singular /\ pc = "for_ntry")
            => /\ UNCHANGED <<outs, sims>>
               /\ IF ntry + 1 < args.ntry_max
                    THEN /\ pc' = "init_T1" /\ ntry' = ntry + 1
                         /\ ~singular' /\ sim_ok' /\ nhd_ok' = <<>> /\ pos' = 1
                    ELSE pc' = "for_ireal" /\ nemit' = 0]_vars

\* the first try of two has failed on a singular system of a sweep, at the
\* first point of the sweep, and is back at the head of the loop over the
\* tries
C28_Witness ==
    /\ pc = "for_ntry" /\ singular /\ ~sim_ok /\ ntry = 0 /\ args.ntry_max = 2
    /\ npt = 2 /\ nhd_ok # <<>> /\ pos = 1 /\ Z = <<>>

\* the cell along one axis of the coordinate c (in half cells, from the
\* origin): strictly inside cell i the coordinate is 2i + 1, on the border
\* between the cells i - 1 and i it is 2i
CellOf(c) ==
    IF c = 0 THEN 0
    ELSE IF c % 2 = 1 THEN (c - 1) \div 2
    ELSE c \div 2 - 1

\* ix + nx * (iy + ny * iz) for the point p of a grid of GridNx cells along
\* every axis
FlatCell(p) ==
    CellOf(p[1])
      + (IF Len(p) >= 2
           THEN GridNx * (CellOf(p[2]) + (IF Len(p) = 3 THEN GridNx * CellOf(p[3]) ELSE 0))
           ELSE 0)

\* C29: for a conditioning point on the grid, the index computed by the
\* indexing step for its cell along an axis is i for a coordinate strictly
\* inside cell i, i - 1 for a
\* coordinate on the border origin + i * spacing with i > 0, and 0 at the
\* origin; the cell of the point is ix + nx * (iy + ny * iz), and it is
\* the cell where an emitted realization that honours the data takes the
\* required category.
C29_CellOfCoordinate ==
    (Indexed /\ \A k \in 1..npt : \A c \in 1..d : x[k][c] \in OnGrid)
        => /\ \A k \in 1..npt : CellIndex(d, x[k]) = FlatCell(x[k])
           /\ (args.x_given /\ ~args.retrieve_real_anyway)
                => \A r \in 1..Len(Z) : \A k \in 1..npt : Z[r][FlatCell(x[k])] = v[k]

\* a realization has been emitted for a point of a 3D grid that lies on a
\* cell border along x, at the origin along y and inside a cell along z
C29_Witness ==
    /\ pc = "for_ireal" /\ Len(Z) = 1 /\ d = 3 /\ npt = 1
    /\ x[1] = <<2, 0, 3>> /\ Z[1][4] = v[1]

\* M is the kriging matrix of the conditioning points for the covariance
\* model name and the variance of kind vkind: symmetric, off the diagonal
\* the covariance of the lag x_j - x_i when no variance is given, on the
\* diagonal the covariance at lag zero, or the variance at the point when
\* one is given
IsKrigingMatrix(M, name, vkind) ==
    LET cov0 == CovFunc(name, [c \in 1..d |-> 0])
    IN  /\ Len(M) = npt
        /\ \A i, j \in 1..npt :
              /\ Len(M[i]) = npt
              /\ M[i][j] = M[j][i]
              /\ (i # j /\ vkind \in {"absent", "none"})
                    => M[i][j] = CovFunc(name, [c \in 1..d |-> x[j][c] - x[i][c]])
        /\ \A i \in 1..npt :
              M[i][i] = IF vkind \in {"absent", "none"} THEN cov0
                        ELSE VarAt(vkind, IF vkind = "grid" THEN Cells[i] ELSE 0, cov0)

\* C30: the step that builds the kriging matrices over npt >= 1 points
\* leaves, for each field with a covariance model, a symmetric matrix with
\* the covariance at lag zero on the whole diagonal and the covariance of
\* x_j - x_i elsewhere, or, with a variance given at the points, a
\* symmetric matrix with these variances on the diagonal.
C30_KrigingMatrix ==
    (pc = "params" /\ npt >= 1)
        => /\ cm1 # 0 => IsKrigingMatrix(mat_T1, args.cov_T1, args.var_T1)
           /\ cm2 # 0 => IsKrigingMatrix(mat_T2, args.cov_T2, args.var_T2)

\* the matrices of two points are built, the one of T1 with a variance
\* given over the grid that differs at the two points
C30_Witness ==
    /\ pc = "params" /\ npt = 2 /\ cm1 # 0 /\ cm2 # 0
    /\ args.var_T1 = "grid" /\ mat_T1[1][1] # mat_T1[2][2]
    /\ mat_T2[1][1] = Cov0_T2 /\ mat_T2[2][2] = Cov0_T2 /\ mat_T2[1][2] = mat_T2[2][1]

\* ------------------------------------------------------------------- C31
\* the call is past the construction of the conditioning data and of the
\* kriging matrices (lines 623-763)
Built ==
    /\ args.func = "pluriGaussianSim"
    /\ \/ pc \notin {"validate", "index", "matrices", "raised", "done"}
       \/ pc = "raised" /\ params_T1.verbose # "absent"
       \/ pc = "done" /\ out \in {"Z", "Z, T1, T2, n_cond_ok"}

\* C31: once built, the conditioning points x, the required values v (with
\* them the cells that index the mean and the variance) and the kriging
\* matrices mat_T1 and mat_T2 stay as they were built: neither the
\* sequential initialization, nor the visits of a sweep, nor the start of
\* another try or of another realization changes them
C31_PreparedDataReadOnly ==
    Built
        => LET kept == KeptData(d, Reshape(args), args.v)
           IN  /\ x = kept[1] /\ v = kept[2]
               /\ mat_T1 = (IF cm1 # 0
                              THEN Rescale(KrigingMatrix(args.cov_T1, kept[1]), args.cov_T1,
                                           args.var_T1, Cells)
                              ELSE <<>>)
               /\ mat_T2 = (IF cm2 # 0
                              THEN Rescale(KrigingMatrix(args.cov_T2, kept[1]), args.cov_T2,
                                           args.var_T2, Cells)
                              ELSE <<>>)

\* in the second try of a call with two points, a sweep has solved the
\* systems of both latent fields for its first point
C31_Witness ==
    /\ pc = "mh_sweep" /\ ntry = 1 /\ npt = 2 /\ pos = 2
    /\ cm1 # 0 /\ cm2 # 0 /\ ncand[ind[1]] = 1

\* ------------------------------------------------------------------- C32
\* the points the current initialization loop has not visited yet
Unvisited == {ind[q] : q \in pos..npt}

\* C32: the latent values and the history belong to the current try. The
\* history is empty until the first iteration of the try and holds one entry
\* per iteration of this try afterwards, the flags a sweep reads being those
\* of its last entry; during the initialization a point
\* that has not been visited in this try holds the zeros of a new vector, in
\* T2 until the second loop reaches it; the fields generated for the result
\* take the latent values of the current try at the conditioning cells, and
\* every history returned is the history of one try
C32_TryOwnsItsState ==
    /\ pc \in {"init_T1", "init_T2", "uncond"} => nhd_ok = <<>>
    /\ pc = "init_T1" =>
          /\ \A k \in 1..npt : v_T[k][2] = 0
          /\ \A k \in Unvisited : v_T[k][1] = 0
    /\ pc = "init_T2" => \A k \in Unvisited : v_T[k][2] = 0
    /\ pc = "mh_iter" => Len(nhd_ok) = nit
    /\ pc = "mh_sweep" => Len(nhd_ok) = nit + 1 /\ NumOk(hd_ok) = Last(nhd_ok)
    /\ (pc = "emit" /\ sim_ok /\ args.x_given) =>
          \A k \in 1..npt :
            /\ cm1 # 0 => sim_T1.f[Cells[k]] = v_T[k][1]
            /\ cm2 # 0 => sim_T2.f[Cells[k]] = v_T[k][2]
    /\ args.func = "pluriGaussianSim" =>
          \A e \in 1..Len(n_cond_ok) : Len(n_cond_ok[e]) <= args.mh_iter_max + 1

\* the second try of a target starts its initialization after a first try
\* that was abandoned with non-zero latent values for both points
C32_Witness ==
    /\ pc = "init_T1" /\ ntry = 1 /\ pos = 1 /\ npt = 2
    /\ v_T = <<<<0, 0>>, <<0, 0>>>> /\ nhd_ok = <<>>
    /\ v_T_k_new = <<1, 1>> /\ hd_ok # <<>>

\* ------------------------------------------------------------------- C33
\* the current try of a conditional call has got past its loop without a
\* failure and is not under way any more: it was abandoned, or has emitted,
\* or its result was dropped
TryOver ==
    /\ args.func = "pluriGaussianSim" /\ args.x_given /\ sim_ok /\ ntries >= 1
    /\ pc \in {"for_ntry", "for_ireal", "return", "done"}

\* C33: a try whose loop ends at mh_iter_max without stop_mh and whose latent
\* values honour all points is not abandoned: the count taken after the loop
\* is npt, the fields are generated and, once generated, the realization is
\* appended, on any try and whatever retrieve_real_anyway is (a try that is
\* over without a failure and without a realization does not honour all
\* points); with mh_iter_min >= mh_iter_max stop_mh is never set
C33_ExhaustedLoopSucceeds ==
    /\ (TryOver /\ nemit = 0) => NumOk(HdOk(v_T)) # npt
    /\ (/\ args.func = "pluriGaussianSim" /\ args.x_given
        /\ pc \in {"generate", "emit"} \/ (TryOver /\ nemit = 1)
        /\ ~stop_mh /\ NumOk(HdOk(v_T)) = npt)
         => (Len(nhd_ok) = args.mh_iter_max + 1 /\ Last(nhd_ok) = npt)
    /\ args.mh_iter_min >= args.mh_iter_max => ~stop_mh

\* a realization has been emitted with retrieve_real_anyway False by a try
\* whose loop ran both iterations without stop_mh, the two points being
\* honoured only by the count after the loop
C33_Witness ==
    /\ pc = "for_ireal" /\ nemit = 1 /\ args.x_given /\ npt = 2
    /\ ~args.retrieve_real_anyway /\ ~stop_mh
    /\ args.mh_iter_min < args.mh_iter_max
    /\ Len(nhd_ok) = 3 /\ nhd_ok[2] < 2 /\ nhd_ok[3] = 2

\* ------------------------------------------------------------------- C34
\* C34: the visit of a point k in a sweep leaves the latent values of every
\* other point as they are, and leaves at k either the pair it held or the
\* whole candidate pair drawn in this visit, never a mix of the two
C34_AcceptanceAtomic ==
    [][(pc = "mh_sweep" /\ pos <= npt) =>
         LET k == ind[pos]
         IN  /\ \A q \in 1..npt : q # k => v_T'[q] = v_T[q]
             /\ \/ v_T'[k] = v_T[k]
                \/ ncand'[k] = ncand[k] + 1 /\ v_T'[k] = v_T_k_new']_vars

\* in a sweep over two points with two simulated fields, the first point
\* visited was not honoured when the sweep started and now holds the
\* candidate <<1, 1>>, which differs from its former pair in T1 or in T2
C34_Witness ==
    /\ pc = "mh_sweep" /\ pos = 2 /\ npt = 2 /\ cm1 # 0 /\ cm2 # 0
    /\ args.rule = "and" /\ v[ind[1]] = 1 /\ ~hd_ok[ind[1]]
    /\ ncand[ind[1]] = 1 /\ v_T_k_new = <<1, 1>> /\ v_T[ind[1]] = <<1, 1>>

\* ------------------------------------------------------------------- C35
\* a call of pluriGaussianSim that keeps the result of the last try
RetrievesAnyway ==
    /\ args.func = "pluriGaussianSim"
    /\ args.retrieve_real_anyway /\ args.ntry_max >= 1

\* C35: with retrieve_real_anyway True and ntry_max >= 1 a target is left
\* without a realization only when its last try has met a singular system or
\* a failure of the field generator (sim_ok False); a call without any such
\* target returns nreal realizations; a realization that does not honour all
\* points is emitted by the try number ntry_max of its target, from the
\* history of that try
C35_RetrieveAnywayReturnsAll ==
    RetrievesAnyway =>
        /\ (pc \in {"for_ireal", "return", "done"} /\ ireal >= 0 /\ nemit = 0)
              => (~sim_ok /\ ntries = args.ntry_max)
        /\ (pc \in {"return", "done"} /\ ireal >= 0 /\ nomit = 0) => Len(Z) = args.nreal
        /\ (nemit = 1 /\ args.x_given /\ Last(nhd_ok) # npt) =>
              /\ ntries = args.ntry_max /\ ntry = args.ntry_max - 1
              /\ args.full_output => Last(n_cond_ok) = nhd_ok

\* a call for two realizations with two tries each is about to return two
\* realizations, the second one emitted by the second try of its target
\* without honouring the data
C35_Witness ==
    /\ pc = "return" /\ RetrievesAnyway /\ args.x_given /\ npt >= 1
    /\ args.nreal = 2 /\ args.ntry_max = 2 /\ Len(Z) = 2 /\ nomit = 0
    /\ ntries = 2 /\ Last(n_cond_ok[2]) # npt

\* ------------------------------------------------------------------- C36
\* C36: when the field generator returns None for T1 or for T2, the try ends
\* there with sim_ok False and nothing appended; after a try that has ended
\* with sim_ok False the next try of the target starts if one is left, and
\* otherwise the target is left without a realization, retrieve_real_anyway
\* or not; a realization is appended only in a try that has generated both
\* fields, and it is the rule applied to those two fields
C36_GeneratorFailureAbandonsTry ==
    /\ (~sim_ok /\ ~singular)
         => /\ sim_T1.none \/ sim_T2.none
            /\ pc \in {"for_ntry", "for_ireal", "return", "done"}
            /\ nemit = 0
            /\ Len(Z) + nomit = (IF pc \in {"return", "done"} THEN ireal + 1 ELSE ireal)
            /\ pc # "for_ntry" => ntries = args.ntry_max
    /\ pc \in {"init_T1", "uncond"} => (sim_ok /\ ntries = ntry + 1)
    /\ pc = "emit" => (sim_ok /\ ~sim_T1.none /\ ~sim_T2.none)
    /\ nemit = 1
         => /\ sim_ok /\ ~sim_T1.none /\ ~sim_T2.none
            /\ Last(Z) = FlagField(sim_T1.f, sim_T2.f)
            /\ args.full_output => (Last(T1) = sim_T1.f /\ Last(T2) = sim_T2.f)

\* with retrieve_real_anyway True, the second target of a conditional call has
\* used its two tries, the generator has returned None in the last one, and the target
\* is left without a realization while the first target has one
C36_Witness ==
    /\ pc = "for_ireal" /\ ireal = 1 /\ nemit = 0 /\ Len(Z) = 1
    /\ args.retrieve_real_anyway /\ args.ntry_max = 2 /\ ntries = 2
    /\ args.x_given /\ ~sim_ok /\ ~singular /\ sim_T1.none /\ ~sim_T2.none

\* ------------------------------------------------------------------- C37
\* the number of conditioning points the fields f1 and f2 honour
HonouredBy(f1, f2) ==
    Cardinality({k \in 1..npt : FlagValue(args.rule, f1[Cells[k]], f2[Cells[k]]) = v[k]})

\* C37: in a call of pluriGaussianSim with full_output, Z, T1, T2 and
\* n_cond_ok have the same length in every state, and entry k of each comes
\* from one try: Z[k] is the rule applied to T1[k] and T2[k], and in a
\* conditional call the last count of n_cond_ok[k] is the number of points
\* that T1[k] and T2[k] honour
C37_FullOutputAligned ==
    (args.func = "pluriGaussianSim" /\ args.full_output) =>
        /\ Len(T1) = Len(Z) /\ Len(T2) = Len(Z) /\ Len(n_cond_ok) = Len(Z)
        /\ \A k \in 1..Len(Z) :
              /\ Z[k] = FlagField(T1[k], T2[k])
              /\ IF args.x_given
                   THEN /\ n_cond_ok[k] # <<>>
                        /\ Last(n_cond_ok[k]) = HonouredBy(T1[k], T2[k])
                   ELSE n_cond_ok[k] = <<>>

\* two realizations have been emitted with full output for two points, with
\* different latent fields T1, the first honouring both points and the
\* second, kept from a last try, not
C37_Witness ==
    /\ args.func = "pluriGaussianSim" /\ args.full_output /\ args.x_given
    /\ npt = 2 /\ Len(Z) = 2 /\ T1[1] # T1[2]
    /\ Last(n_cond_ok[1]) = 2 /\ Last(n_cond_ok[2]) < 2

\* ------------------------------------------------------------------- C38
\* C38: with accept_init = 0 a visit of a sweep changes the latent values
\* only to a candidate of the required category, at any iteration; every
\* point that is honoured before a visit is honoured after it, and the history
\* of the try never decreases, from its first entry to the count taken after
\* the loop
C38_NoWrongAcceptance ==
    [][args.accept_init = 0 =>
         /\ pc = "mh_sweep" =>
               /\ v_T' # v_T =>
                     FlagValue(args.rule, v_T_k_new'[1], v_T_k_new'[2]) = v[ind[pos]]
               /\ \A k \in 1..npt : HdOk(v_T)[k] => HdOk(v_T')[k]
         /\ \A i \in 1..(Len(nhd_ok') - 1) : nhd_ok'[i] <= nhd_ok'[i + 1]]_vars

\* with accept_init = 0 and mh_iter_min = 2, the history of a try over two
\* points has grown in each of the two iterations made before mh_iter_min
C38_Witness ==
    /\ args.accept_init = 0 /\ args.mh_iter_min = 2 /\ npt = 2
    /\ nhd_ok = <<0, 1, 2>> /\ ~stop_mh

\* ------------------------------------------------------------------- C39
\* C39: no step of a call of pluriGaussianSim changes the dictionaries passed
\* as params_T1 and params_T2 (the default dictionaries when the arguments are
\* omitted): they hold after the call what they held before it
C39_ParamsLeftAsGiven ==
    [][args.func = "pluriGaussianSim" => UNCHANGED <<params_T1, params_T2>>]_vars

====
